---- MODULE Spec2Model ----
(***************************************************************************)
(* VIN tracker backend (src/server.js): the vins table, the create,        *)
(* delete, list and import request handlers, and isValidVIN.               *)
(*                                                                         *)
(* A handler is cut into steps at its awaits: every pool.query is one      *)
(* atomic statement of the database, and the handlers of concurrent        *)
(* requests interleave between statements.                                 *)
(*                                                                         *)
(* Strings that the code inspects character by character (VIN codes) are   *)
(* sequences of one-character strings.  Free text (user agent, address)    *)
(* is a TLA+ string.  Instants are integers (ticks of the clock `now`).     *)
(***************************************************************************)
EXTENDS Integers, Sequences, FiniteSets, TLC

VARIABLES
    store,      \* rows of table vins
    seq,        \* last value handed out by the SERIAL sequence of vins.id
    now,        \* the clock
    nreq,       \* requests received so far
    nimp,       \* import requests received so far
    pc,         \* per request slot: idle | insert | delete | inserting | done
    req,        \* per request slot: the request being handled
    loc,        \* per request slot: the handler's local variables
    resp,       \* per request slot: the response sent (status 0: none yet)
    uploads,    \* request slots whose temporary upload file exists on disk
    vin,        \* isValidVIN harness: the argument
    valid,      \* isValidVIN harness: "unset" | "true" | "false"
    exported    \* the last export a client downloaded: its sheet and
                \* (history) the rows of the table it was made from

vars == <<store, seq, now, nreq, nimp, pc, req, loc, resp, uploads, vin, valid, exported>>
serverVars == <<store, seq, now, nreq, nimp, pc, req, loc, resp, uploads>>
harnessVars == <<vin, valid, exported>>

----------------------------------------------------------------------------
(* Bounds *)

NumProcs == 2        \* request slots (requests in flight at once)
MaxRequests == 3     \* requests received in one behaviour
MaxTime == 1         \* the clock runs 0..MaxTime
MaxRows == 2         \* data rows of an uploaded sheet
MaxImports == 1      \* import requests received in one behaviour
MaxDeleteId == 2     \* DELETE /api/vins/:id is tried with ids 1..MaxDeleteId
MaxPad == 1          \* harness: characters added to / cut from a 17-char string

Procs == 1..NumProcs
Times == 0..MaxTime

----------------------------------------------------------------------------
(* Characters and strings *)

Digits == {"0","1","2","3","4","5","6","7","8","9"}
UpperSeq == <<"A","B","C","D","E","F","G","H","I","J","K","L","M",
              "N","O","P","Q","R","S","T","U","V","W","X","Y","Z">>
LowerSeq == <<"a","b","c","d","e","f","g","h","i","j","k","l","m",
              "n","o","p","q","r","s","t","u","v","w","x","y","z">>
UpperLetters == {UpperSeq[i] : i \in 1..26}
LowerLetters == {LowerSeq[i] : i \in 1..26}
Whitespace == {" "}

\* String.prototype.toUpperCase, character by character
ToUpperChar(c) ==
    IF c \in LowerLetters
    THEN UpperSeq[CHOOSE i \in 1..26 : LowerSeq[i] = c]
    ELSE c

toUpperCase(s) == [i \in 1..Len(s) |-> ToUpperChar(s[i])]

RECURSIVE TrimStart(_)
TrimStart(s) ==
    IF s # <<>> /\ Head(s) \in Whitespace THEN TrimStart(Tail(s)) ELSE s

RECURSIVE TrimEnd(_)
TrimEnd(s) ==
    IF s # <<>> /\ s[Len(s)] \in Whitespace
    THEN TrimEnd(SubSeq(s, 1, Len(s) - 1))
    ELSE s

\* String.prototype.trim
trim(s) == TrimEnd(TrimStart(s))

----------------------------------------------------------------------------
(* isValidVIN *)

VinLength == 17

\* the character class [A-HJ-NPR-Z0-9]
\* faulty variant: the class [A-Z0-9]
VinCharsNoExclusion == UpperLetters \cup Digits
VinChars ==
    {UpperSeq[i] : i \in (1..8) \cup (10..14) \cup {16} \cup (18..26)} \cup Digits

\* /^[A-HJ-NPR-Z0-9]{17}$/ : anchored at both ends, exactly 17 of the class
MatchesVinRegex(s) ==
    /\ Len(s) = VinLength
    /\ \A i \in 1..Len(s) : s[i] \in VinChars

\* faulty variant: the regex without its anchors' length, [A-HJ-NPR-Z0-9]*
isValidVINNoLength(v) == \A i \in 1..Len(v) : v[i] \in VinChars
isValidVIN(v) == MatchesVinRegex(v)

----------------------------------------------------------------------------
(* Sample values *)

VIN_A == <<"1","H","G","C","M","8","2","6","3","3","A","1","2","3","4","5","6">>
VIN_B == <<"J","T","D","K","N","3","D","U","0","A","0","1","2","3","4","5","6">>
\* VIN_A written in lowercase
VIN_A_LOWER == <<"1","h","g","c","m","8","2","6","3","3","a","1","2","3","4","5","6">>
\* VIN_B in lowercase with a leading and a trailing blank, as a sheet may hold it
VIN_B_PADDED == <<" ","j","t","d","k","n","3","d","u","0","a","0","1","2","3","4","5","6"," ">>
\* 17 characters, one of them the excluded letter I
VIN_WITH_I == <<"1","H","G","C","M","8","2","6","3","3","I","1","2","3","4","5","6">>
\* 16 characters of the class
VIN_SHORT == <<"1","H","G","C","M","8","2","6","3","3","A","1","2","3","4","5">>

\* SQL NULL / JavaScript null and undefined in a text position
NULL == "<null>"
\* omitted `date` of a request body
NoDate == -1

\* req.ip of the client
ClientIp == "203.0.113.7"

----------------------------------------------------------------------------
(* Time and calendar *)

(* An instant is an integer: ticks since 1 January 2025, 00:00:00, in the    *)
(* time zone of the server, which is also the time zone of the database      *)
(* session.  A second has TicksPerSecond ticks, so that an instant can lie   *)
(* between two seconds as a JavaScript Date (milliseconds) can.              *)
TicksPerSecond == 2
SecondsPerDay == 24 * 60 * 60
TicksPerDay == TicksPerSecond * SecondsPerDay

\* days from 1 January 1970 to the day d of month m (1..12) of year y in the
\* proleptic Gregorian calendar
DaysFromCivil(y, m, d) ==
    LET yy == IF m <= 2 THEN y - 1 ELSE y
        era == yy \div 400
        yoe == yy - era * 400
        mp == IF m > 2 THEN m - 3 ELSE m + 9
        doy == ((153 * mp + 2) \div 5) + d - 1
        doe == yoe * 365 + (yoe \div 4) - (yoe \div 100) + doy
    IN  era * 146097 + doe - 719468

\* the calendar date of the day z days after 1 January 1970
CivilFromDays(z) ==
    LET zz == z + 719468
        era == zz \div 146097
        doe == zz - era * 146097
        yoe == (doe - (doe \div 1460) + (doe \div 36524) - (doe \div 146096)) \div 365
        doy == doe - (365 * yoe + (yoe \div 4) - (yoe \div 100))
        mp == (5 * doy + 2) \div 153
        m == IF mp < 10 THEN mp + 3 ELSE mp - 9
    IN  [year |-> yoe + era * 400 + (IF m <= 2 THEN 1 ELSE 0),
         month |-> m,
         day |-> doy - ((153 * mp + 2) \div 5) + 1]

EpochDay == DaysFromCivil(2025, 1, 1)

\* new Date(year, monthIndex, day, hours, minutes, seconds) in local time:
\* a month index outside 0..11 carries into the year, a day outside the month
\* and a time outside the day carry into the days (MakeDay, MakeTime)
MakeDate(year, monthIndex, day, hours, minutes, seconds) ==
    LET y == year + (monthIndex \div 12)
        m == (monthIndex % 12) + 1
    IN  (DaysFromCivil(y, m, 1) + day - 1 - EpochDay) * TicksPerDay
          + ((hours * 60 + minutes) * 60 + seconds) * TicksPerSecond

\* the instant of a local date and time, with frac ticks past the second
At(year, month, day, hours, minutes, seconds, frac) ==
    MakeDate(year, month - 1, day, hours, minutes, seconds) + frac

\* the local calendar day of an instant, as days since 1 January 1970:
\* DATE(timestamptz) of the database, the date part of a JavaScript Date
DayOf(t) == (t \div TicksPerDay) + EpochDay
DateOf(t) == CivilFromDays(DayOf(t))
\* the whole seconds of an instant since its local midnight
SecondOfDay(t) == (t % TicksPerDay) \div TicksPerSecond

----------------------------------------------------------------------------
(* The vins table (CREATE TABLE, server.js 140-149; CHECK, 172-183) *)

\* input function of type INET: texts that are an IPv4/IPv6 address
InetTexts == {ClientIp, "10.0.0.1"}
IsInet(text) == text \in InetTexts

\* CONSTRAINT check_vin_format CHECK (code ~ '^[A-HJ-NPR-Z0-9]{17}$')
CheckVinFormat(code) ==
    /\ Len(code) = VinLength
    /\ \A i \in 1..Len(code) : code[i] \in VinChars

\* code VARCHAR(17) NOT NULL UNIQUE: the implicit index vins_code_key
\* faulty variant: a table without the UNIQUE constraint
CodeTakenNever(st, code) == FALSE
CodeTaken(st, code) == \E r \in st : r.code = code

\* Outcome of INSERT INTO vins (code, date_created, user_agent, ip_address):
\* "none", or what the statement fails with.  The parameters are converted
\* to the column types when the statement is bound; the row constraints are
\* checked after the defaults (nextval of the id sequence) were computed.
InsertError(st, code, ip) ==
    IF ip # NULL /\ ~IsInet(ip) THEN "22P02"
    ELSE IF ~CheckVinFormat(code) THEN "check_vin_format"
    ELSE IF CodeTaken(st, code) THEN "vins_code_key"
    ELSE "none"

\* does the failed (or successful) INSERT consume a value of the id sequence
ConsumesId(err) == err \in {"none", "check_vin_format", "vins_code_key"}

\* id SERIAL PRIMARY KEY: nextval
\* faulty variant: max(id) + 1 in place of a sequence
NextIdReuse(st, sq) == IF st = {} THEN 1 ELSE 1 + Cardinality(st)
NextId(st, sq) == sq + 1

\* the row an INSERT adds: id from the sequence, created_at DEFAULT CURRENT_TIMESTAMP
NewRow(st, sq, t, code, date, ua, ip) ==
    [id |-> NextId(st, sq), code |-> code, date_created |-> date,
     user_agent |-> ua, ip_address |-> ip, created_at |-> t]

\* error.constraint of the error a failed statement rejects with
ErrorConstraint(err) ==
    IF err \in {"check_vin_format", "vins_code_key"} THEN err ELSE "undefined"

\* error.message
ErrorMessage(err) ==
    CASE err = "22P02" -> "invalid input syntax for type inet"
      [] err = "check_vin_format" -> "violates check constraint"
      [] err = "vins_code_key" -> "duplicate key value violates unique constraint"
      [] OTHER -> ""

\* the JSON shape the handlers give a row (server.js 256-263, 300-307)
RowToVin(row) ==
    [id |-> row.id, code |-> row.code, date |-> row.date_created,
     userAgent |-> row.user_agent, ipAddress |-> row.ip_address,
     createdAt |-> row.created_at]

\* faulty variant: ORDER BY date_created DESC
OrderedByDateCreatedDesc(st) ==
    LET n == Cardinality(st) IN
    {s \in [1..n -> st] :
        /\ \A i, j \in 1..n : i # j => s[i] # s[j]
        /\ \A i \in 1..(n - 1) : s[i].date_created >= s[i + 1].date_created}

\* results of SELECT ... ORDER BY created_at DESC: any order of the rows that
\* is non-increasing in created_at (rows with equal created_at in any order)
OrderedByCreatedAtDesc(st) ==
    LET n == Cardinality(st) IN
    {s \in [1..n -> st] :
        /\ \A i, j \in 1..n : i # j => s[i] # s[j]
        /\ \A i \in 1..(n - 1) : s[i].created_at >= s[i + 1].created_at}

----------------------------------------------------------------------------
(* Request slots *)

NoReq == [kind |-> "none", during |-> {}]
NoLoc == [step |-> "none"]
NoResp == [status |-> 0]

\* a request is taken by the lowest slot that handles none
Free(p) == pc[p] \in {"idle", "done"}
CanReceive(p) ==
    /\ Free(p)
    /\ \A q \in Procs : q < p => ~Free(q)
    /\ nreq < MaxRequests

\* The slot p takes the request r.  during (history, read by no handler): the
\* slots whose request was in flight when this one arrived; a slot that takes
\* a new request leaves the during sets of the others.
Receive(p, r) ==
    req' = [q \in Procs |->
              IF q = p
              THEN r @@ [during |-> {b \in Procs \ {p} : ~Free(b)}]
              ELSE [req[q] EXCEPT !.during = @ \ {p}]]

\* the requests held by slots p and q were in flight at the same time
Overlapped(p, q) == q \in req[p].during \/ p \in req[q].during

\* the slot p answers and is done
Respond(p, r) ==
    /\ resp' = [resp EXCEPT ![p] = r]
    /\ pc' = [pc EXCEPT ![p] = "done"]

----------------------------------------------------------------------------
(* POST /api/vins  (server.js 273-321) *)

\* body.code: the empty sequence stands for every falsy code (missing, null, "")
\* body.date: NoDate stands for every falsy date
\* body.userAgent: NULL stands for every falsy userAgent

\* the guard of line 277
\* faulty variant: no validation before the INSERT
CreateRejectsNothing(code) == FALSE
CreateRejects(code) == code = <<>> \/ ~isValidVIN(code)

\* faulty variant: the supplied date is ignored
CreateParamsNowOnly(code, date, ua, t) ==
    [code |-> toUpperCase(code), date |-> t, userAgent |-> ua, ipAddress |-> ClientIp]

\* the parameter array of lines 289-294, built before the query is awaited
CreateParams(code, date, ua, t) ==
    [code |-> toUpperCase(code),
     date |-> IF date = NoDate THEN t ELSE date,
     userAgent |-> ua,
     ipAddress |-> ClientIp]

\* lines 274-294: validate, then send the INSERT
PostVinStart(p, body) ==
    /\ CanReceive(p)
    /\ nreq' = nreq + 1
    /\ Receive(p, [kind |-> "create", body |-> body, at |-> now])
    /\ IF CreateRejects(body.code)
       THEN /\ Respond(p, [status |-> 400, success |-> FALSE,
                           error |-> "Code VIN invalide ou manquant"])
            /\ loc' = [loc EXCEPT ![p] = NoLoc]
       ELSE /\ pc' = [pc EXCEPT ![p] = "insert"]
            /\ loc' = [loc EXCEPT ![p] = [step |-> "insert",
                                          params |-> CreateParams(body.code, body.date, body.userAgent, now)]]
            /\ resp' = [resp EXCEPT ![p] = NoResp]
    /\ UNCHANGED <<store, seq, now, nimp, uploads>>

\* faulty variant: the unique violation is not told from other failures
CreateResponseNoConflict(err, row) ==
    IF err = "none"
    THEN [status |-> 201, success |-> TRUE, vin |-> RowToVin(row)]
    ELSE [status |-> 500, success |-> FALSE, error |-> ErrorMessage(err)]

\* the response of lines 296-320 to the outcome of the INSERT ... RETURNING *
CreateResponse(err, row) ==
    IF err = "none"
    THEN [status |-> 201, success |-> TRUE, vin |-> RowToVin(row)]
    ELSE IF ErrorConstraint(err) = "vins_code_key"
    THEN [status |-> 409, success |-> FALSE,
          error |-> "Ce VIN existe deja dans la base de donnees"]
    ELSE [status |-> 500, success |-> FALSE, error |-> ErrorMessage(err)]

\* lines 285-320: the database runs the INSERT, the handler answers
PostVinInsert(p) ==
    /\ pc[p] = "insert"
    /\ LET a == loc[p].params
           err == InsertError(store, a.code, a.ipAddress)
           row == NewRow(store, seq, now, a.code, a.date, a.userAgent, a.ipAddress)
       IN  /\ store' = IF err = "none" THEN store \cup {row} ELSE store
           /\ seq' = IF ConsumesId(err) THEN NextId(store, seq) ELSE seq
           /\ Respond(p, CreateResponse(err, row))
    /\ UNCHANGED <<now, nreq, nimp, req, loc, uploads>>

----------------------------------------------------------------------------
(* DELETE /api/vins/:id  (server.js 324-360) *)

\* req.params.id is text.  form "integer": the digits of n; "decimal": a
\* number that is no integer, as 1.5 (isNaN is false, the INTEGER column does
\* not take it); "text": anything isNaN is true of
IdParam(form, n) == [form |-> form, n |-> n]
IdParams ==
    {IdParam("integer", i) : i \in 1..MaxDeleteId}
        \cup {IdParam("decimal", 0), IdParam("text", 0)}

\* the guard of line 327
IdRejected(id) == id.form = "text"

\* SELECT * FROM vins WHERE id = $1
SelectById(st, n) == {r \in st : r.id = n}

\* lines 325-345: validate the id, then SELECT the row
DeleteVinStart(p, id) ==
    /\ CanReceive(p)
    /\ nreq' = nreq + 1
    /\ Receive(p, [kind |-> "delete", id |-> id])
    /\ IF IdRejected(id)
       THEN /\ Respond(p, [status |-> 400, success |-> FALSE,
                           error |-> "ID de VIN invalide"])
            /\ loc' = [loc EXCEPT ![p] = NoLoc]
       ELSE IF id.form # "integer"
       THEN \* the SELECT fails when its parameter is bound: lines 356-359
            /\ Respond(p, [status |-> 500, success |-> FALSE,
                           error |-> "invalid input syntax for type integer"])
            /\ loc' = [loc EXCEPT ![p] = NoLoc]
       ELSE IF SelectById(store, id.n) = {}
       THEN /\ Respond(p, [status |-> 404, success |-> FALSE,
                           error |-> "VIN non trouve"])
            /\ loc' = [loc EXCEPT ![p] = NoLoc]
       ELSE /\ pc' = [pc EXCEPT ![p] = "delete"]
            /\ loc' = [loc EXCEPT ![p] =
                          [step |-> "delete",
                           row |-> CHOOSE r \in SelectById(store, id.n) : TRUE]]
            /\ resp' = [resp EXCEPT ![p] = NoResp]
    /\ UNCHANGED <<store, seq, now, nimp, uploads>>

\* DELETE FROM vins WHERE id = $1
\* faulty variant: a DELETE that matches no row
DeleteByIdNothing(st, n) == st
\* faulty variant: the row is kept and marked instead of removed
DeleteByIdSoft(st, n) ==
    {IF r.id = n THEN [r EXCEPT !.user_agent = "deleted"] ELSE r : r \in st}
DeleteById(st, n) == {r \in st : r.id # n}

\* lines 348-354: the database runs the DELETE, the handler answers with the
\* row it had selected
DeleteVinExec(p) ==
    /\ pc[p] = "delete"
    /\ store' = DeleteById(store, req[p].id.n)
    /\ Respond(p, [status |-> 200, success |-> TRUE, deletedVin |-> loc[p].row])
    /\ UNCHANGED <<seq, now, nreq, nimp, req, loc, uploads>>

----------------------------------------------------------------------------
(* GET /api/vins  (server.js 248-270) *)

ListVins(p) ==
    /\ CanReceive(p)
    /\ nreq' = nreq + 1
    /\ Receive(p, [kind |-> "list"])
    /\ loc' = [loc EXCEPT ![p] = NoLoc]
    /\ \E rows \in OrderedByCreatedAtDesc(store) :
          Respond(p, [status |-> 200, success |-> TRUE,
                      vins |-> [i \in 1..Len(rows) |-> RowToVin(rows[i])]])
    /\ UNCHANGED <<store, seq, now, nimp, uploads>>

----------------------------------------------------------------------------
(* GET /api/vins/search  (server.js 363-408) *)

\* req.query: q is text (the empty sequence stands for every falsy q);
\* dateFrom and dateTo are a calendar day (days since 1 January 1970, as the
\* database reads the text YYYY-MM-DD) or NoDay for every falsy value
NoDay == -1
SearchQuery(q, dateFrom, dateTo) == [q |-> q, dateFrom |-> dateFrom, dateTo |-> dateTo]

\* string LIKE pattern: % matches any sequence of characters, _ any one
\* character, a backslash takes the character after it literally
RECURSIVE LikeMatch(_, _)
LikeMatch(str, pat) ==
    IF pat = <<>> THEN str = <<>>
    ELSE IF Head(pat) = "%"
    THEN LikeMatch(str, Tail(pat)) \/ (str # <<>> /\ LikeMatch(Tail(str), pat))
    ELSE IF Head(pat) = "_"
    THEN str # <<>> /\ LikeMatch(Tail(str), Tail(pat))
    ELSE IF Head(pat) = "\\"
    THEN /\ Len(pat) >= 2
         /\ str # <<>>
         /\ Head(str) = pat[2]
         /\ LikeMatch(Tail(str), Tail(Tail(pat)))
    ELSE str # <<>> /\ Head(str) = Head(pat) /\ LikeMatch(Tail(str), Tail(pat))

\* string ILIKE pattern: LIKE without regard to the case of letters
ILike(str, pat) == LikeMatch(toUpperCase(str), toUpperCase(pat))

\* the parameter of line 373: `%${q.toUpperCase()}%`
SearchPattern(q) == <<"%">> \o toUpperCase(q) \o <<"%">>

\* faulty variant: the date bounds are exclusive
SearchWhereExclusive(r, query) ==
    /\ query.q # <<>> => ILike(r.code, SearchPattern(query.q))
    /\ query.dateFrom # NoDay => DayOf(r.date_created) > query.dateFrom
    /\ query.dateTo # NoDay => DayOf(r.date_created) < query.dateTo

\* the WHERE clause built by lines 367-387
SearchWhere(r, query) ==
    /\ query.q # <<>> => ILike(r.code, SearchPattern(query.q))
    /\ query.dateFrom # NoDay => DayOf(r.date_created) >= query.dateFrom
    /\ query.dateTo # NoDay => DayOf(r.date_created) <= query.dateTo

\* lines 364-387: build the statement and send it
SearchVinsStart(p, query) ==
    /\ CanReceive(p)
    /\ nreq' = nreq + 1
    /\ Receive(p, [kind |-> "search", query |-> query])
    /\ pc' = [pc EXCEPT ![p] = "search"]
    /\ loc' = [loc EXCEPT ![p] = [step |-> "search", query |-> query]]
    /\ resp' = [resp EXCEPT ![p] = NoResp]
    /\ UNCHANGED <<store, seq, now, nimp, uploads>>

\* lines 389-402: the database runs the SELECT, the handler answers
SearchVinsExec(p) ==
    /\ pc[p] = "search"
    /\ \E rows \in OrderedByCreatedAtDesc({r \in store : SearchWhere(r, loc[p].query)}) :
          Respond(p, [status |-> 200, success |-> TRUE,
                      vins |-> [i \in 1..Len(rows) |-> RowToVin(rows[i])]])
    /\ UNCHANGED <<store, seq, now, nreq, nimp, req, loc, uploads>>

----------------------------------------------------------------------------
(* GET /api/vins/stats  (server.js 597-619) *)

\* SELECT COUNT(*) FROM vins
CountTotal(st, t) == Cardinality(st)

\* ... WHERE DATE(created_at) = CURRENT_DATE
CountToday(st, t) == Cardinality({r \in st : DayOf(r.created_at) = DayOf(t)})

\* ... WHERE EXTRACT(YEAR FROM created_at) = EXTRACT(YEAR FROM CURRENT_DATE)
\*       AND EXTRACT(MONTH FROM created_at) = EXTRACT(MONTH FROM CURRENT_DATE)
CountThisMonth(st, t) ==
    Cardinality({r \in st :
        /\ DateOf(r.created_at).year = DateOf(t).year
        /\ DateOf(r.created_at).month = DateOf(t).month})

\* ... WHERE created_at >= CURRENT_DATE - INTERVAL '7 days': the midnight
\* that began the day seven days before the current day
WeekDays == 7
CountThisWeek(st, t) ==
    Cardinality({r \in st :
        r.created_at >= (DayOf(t) - WeekDays - EpochDay) * TicksPerDay})

\* Object.entries(queries): the statements in the order they are run
StatsKeys == <<"total", "today", "thisMonth", "thisWeek">>
StatsCount(key, st, t) ==
    CASE key = "total" -> CountTotal(st, t)
      [] key = "today" -> CountToday(st, t)
      [] key = "thisMonth" -> CountThisMonth(st, t)
      [] key = "thisWeek" -> CountThisWeek(st, t)

\* lines 598-606: the handler starts, stats = {}
StatsStart(p) ==
    /\ CanReceive(p)
    /\ nreq' = nreq + 1
    /\ Receive(p, [kind |-> "stats"])
    /\ pc' = [pc EXCEPT ![p] = "stats"]
    /\ loc' = [loc EXCEPT ![p] =
                  [step |-> "stats", next |-> 1,
                   stats |-> [k \in {} |-> 0]]]
    /\ resp' = [resp EXCEPT ![p] = NoResp]
    /\ UNCHANGED <<store, seq, now, nimp, uploads>>

\* lines 608-613, one turn of the loop: the database runs the next COUNT;
\* after the last one the handler answers
StatsQuery(p) ==
    /\ pc[p] = "stats"
    /\ LET key == StatsKeys[loc[p].next]
           stats == (key :> StatsCount(key, store, now)) @@ loc[p].stats
       IN  IF loc[p].next < Len(StatsKeys)
           THEN /\ loc' = [loc EXCEPT ![p] = [@ EXCEPT !.next = @ + 1, !.stats = stats]]
                /\ UNCHANGED <<pc, resp>>
           ELSE /\ loc' = [loc EXCEPT ![p] = [@ EXCEPT !.stats = stats]]
                /\ Respond(p, [status |-> 200, success |-> TRUE, stats |-> stats])
    /\ UNCHANGED <<store, seq, now, nreq, nimp, req, uploads>>

----------------------------------------------------------------------------
(* POST /api/vins/import  (server.js 411-594) *)

\* A cell value of the sheet.  t is its JavaScript type: "null" (empty cell),
\* "string", "number" or "date" (a Date object).  A code cell carries its
\* characters in s.  A date cell of type "date" carries the instant in v
\* (fmt "invalid": an Invalid Date object).  A date cell of type "string"
\* says in fmt how the text is written: "french" holds the pattern
\* D/M/YYYY H:M:S, and f is the six numbers of the text in the order written;
\* "iso" is a text new Date() parses, to the instant v; "garbage" is a text
\* new Date() makes Invalid Date; "empty" is the empty text.  A date cell of
\* type "number" carries the number in v.
CodeCell(t, s) == [t |-> t, s |-> s]
DateCell(t, fmt, v) == [t |-> t, fmt |-> fmt, v |-> v, f |-> <<>>]
\* the text "d/m/y h:mi:s"
FrenchText(d, m, y, h, mi, s) ==
    [t |-> "string", fmt |-> "french", v |-> 0, f |-> <<d, m, y, h, mi, s>>]

\* cells 2, 3, 5 and 6 of a row; ua and ip are text or NULL (empty cell)
SheetRow(code, date, ua, ip) == [code |-> code, date |-> date, ua |-> ua, ip |-> ip]

HeaderRow ==
    SheetRow(CodeCell("string", <<"C","o","d","e"," ","V","I","N">>),
             DateCell("string", "garbage", 0), "Navigateur", "Adresse IP")

SampleRows ==
    { SheetRow(CodeCell("string", VIN_A), DateCell("date", "-", 0),
               "Mozilla/5.0", "10.0.0.1"),
      SheetRow(CodeCell("string", VIN_B_PADDED), FrenchText(1, 1, 2025, 0, 0, 0),
               NULL, "10.0.0.1"),
      SheetRow(CodeCell("string", VIN_A), DateCell("string", "iso", 1),
               NULL, NULL),
      SheetRow(CodeCell("string", VIN_WITH_I), DateCell("date", "-", 0),
               NULL, "10.0.0.1"),
      SheetRow(CodeCell("string", VIN_B), DateCell("string", "garbage", 0),
               NULL, "10.0.0.1") }

\* rows[1] is row 1 of the sheet; the data rows follow
SheetsOfLength(n) ==
    {<<h>> \o d : h \in {HeaderRow}, d \in [1..n -> SampleRows]}

\* file: "none" (no file part), "unreadable" (readFile throws), "nosheet"
\* (a workbook without worksheet), "ok"
Uploads ==
    {[file |-> f, rows |-> <<>>] : f \in {"none", "unreadable", "nosheet"}}
        \cup {[file |-> "ok", rows |-> r] :
                 r \in UNION {SheetsOfLength(n) : n \in 0..MaxRows}}

RowError(rowNumber, text, code) == [line |-> rowNumber, text |-> text, code |-> code]

\* !dateEnregistrement (line 477): an empty cell, the empty text, the number 0
DateMissing(cell) ==
    \/ cell.t = "null"
    \/ cell.t = "string" /\ cell.fmt = "empty"
    \/ cell.t = "number" /\ cell.v = 0

\* faulty variant: the numbers of a french text are read month first
ConvertDateMonthFirst(cell) ==
    IF cell.t = "date"
    THEN IF cell.fmt = "invalid"
         THEN [ok |-> FALSE, v |-> 0, text |-> "Erreur lors du traitement"]
         ELSE [ok |-> TRUE, v |-> cell.v, text |-> ""]
    ELSE IF cell.t = "string"
    THEN IF cell.fmt = "french"
         THEN [ok |-> TRUE,
               v |-> MakeDate(cell.f[3], cell.f[1] - 1, cell.f[2],
                              cell.f[4], cell.f[5], cell.f[6]),
               text |-> ""]
         ELSE IF cell.fmt = "iso" THEN [ok |-> TRUE, v |-> cell.v, text |-> ""]
         ELSE [ok |-> FALSE, v |-> 0, text |-> "Format de date invalide"]
    ELSE [ok |-> FALSE, v |-> 0, text |-> "Format de date non supporte"]

\* lines 482-506: the date cell to an instant.  toISOString of an Invalid
\* Date throws, and the catch of lines 515-518 records the row's error
ConvertDate(cell) ==
    IF cell.t = "date"
    THEN IF cell.fmt = "invalid"
         THEN [ok |-> FALSE, v |-> 0, text |-> "Erreur lors du traitement"]
         ELSE [ok |-> TRUE, v |-> cell.v, text |-> ""]
    ELSE IF cell.t = "string"
    THEN IF cell.fmt = "french"
         THEN \* [, day, month, year, hour, minute, second] = frenchFormat
              [ok |-> TRUE,
               v |-> MakeDate(cell.f[3], cell.f[2] - 1, cell.f[1],
                              cell.f[4], cell.f[5], cell.f[6]),
               text |-> ""]
         ELSE IF cell.fmt = "iso" THEN [ok |-> TRUE, v |-> cell.v, text |-> ""]
         ELSE [ok |-> FALSE, v |-> 0, text |-> "Format de date invalide"]
    ELSE [ok |-> FALSE, v |-> 0, text |-> "Format de date non supporte"]

\* faulty variant: the code cell is validated and queued as it is written
ParseRowNoNormalize(row, rowNumber) ==
    LET codeStr == row.code.s
        d == ConvertDate(row.date)
    IN
    IF row.code.t # "string" \/ row.code.s = <<>>
    THEN [ok |-> FALSE,
          error |-> RowError(rowNumber, "Code VIN manquant ou invalide", <<>>)]
    ELSE IF ~isValidVIN(codeStr)
    THEN [ok |-> FALSE, error |-> RowError(rowNumber, "VIN invalide", codeStr)]
    ELSE IF DateMissing(row.date)
    THEN [ok |-> FALSE,
          error |-> RowError(rowNumber, "Date d'enregistrement manquante", <<>>)]
    ELSE IF ~d.ok
    THEN [ok |-> FALSE, error |-> RowError(rowNumber, d.text, <<>>)]
    ELSE [ok |-> TRUE,
          vin |-> [code |-> codeStr, date |-> d.v,
                   userAgent |-> IF row.ua # NULL THEN row.ua ELSE "Import Excel",
                   ipAddress |-> IF row.ip # NULL THEN row.ip ELSE "Import"]]

\* lines 455-518: one data row to an entry of importedVINs or an error
ParseRow(row, rowNumber) ==
    LET codeStr == toUpperCase(trim(row.code.s))
        d == ConvertDate(row.date)
    IN
    IF row.code.t # "string" \/ row.code.s = <<>>
    THEN [ok |-> FALSE,
          error |-> RowError(rowNumber, "Code VIN manquant ou invalide", <<>>)]
    ELSE IF ~isValidVIN(codeStr)
    THEN [ok |-> FALSE, error |-> RowError(rowNumber, "VIN invalide", codeStr)]
    ELSE IF DateMissing(row.date)
    THEN [ok |-> FALSE,
          error |-> RowError(rowNumber, "Date d'enregistrement manquante", <<>>)]
    ELSE IF ~d.ok
    THEN [ok |-> FALSE, error |-> RowError(rowNumber, d.text, <<>>)]
    ELSE [ok |-> TRUE,
          vin |-> [code |-> codeStr, date |-> d.v,
                   userAgent |-> IF row.ua # NULL THEN row.ua ELSE "Import Excel",
                   ipAddress |-> IF row.ip # NULL THEN row.ip ELSE "Import"]]

\* lines 449-519: worksheet.eachRow over rows n..Len(rows), row 1 skipped
\* faulty variant: the first bad row ends the pass over the sheet
RECURSIVE ParseRowsStopAtError(_, _, _)
ParseRowsStopAtError(rows, n, acc) ==
    IF n > Len(rows) THEN acc
    ELSE IF n = 1 THEN ParseRowsStopAtError(rows, n + 1, acc)
    ELSE LET r == ParseRow(rows[n], n) IN
         IF r.ok
         THEN ParseRowsStopAtError(rows, n + 1,
                                   [acc EXCEPT !.vins = Append(@, r.vin)])
         ELSE [acc EXCEPT !.errors = Append(@, r.error)]

\* faulty variant: row 1 is read as a data row
RECURSIVE ParseRowsWithHeader(_, _, _)
ParseRowsWithHeader(rows, n, acc) ==
    IF n > Len(rows) THEN acc
    ELSE LET r == ParseRow(rows[n], n) IN
         ParseRowsWithHeader(rows, n + 1,
                   IF r.ok THEN [acc EXCEPT !.vins = Append(@, r.vin)]
                   ELSE [acc EXCEPT !.errors = Append(@, r.error)])

RECURSIVE ParseRows(_, _, _)
ParseRows(rows, n, acc) ==
    IF n > Len(rows) THEN acc
    ELSE IF n = 1 THEN ParseRows(rows, n + 1, acc)
    ELSE LET r == ParseRow(rows[n], n) IN
         ParseRows(rows, n + 1,
                   IF r.ok THEN [acc EXCEPT !.vins = Append(@, r.vin)]
                   ELSE [acc EXCEPT !.errors = Append(@, r.error)])

\* lines 412-521: the upload is on disk when the handler runs (multer); read
\* the workbook, find the worksheet, parse the rows
ImportStart(p, up) ==
    /\ CanReceive(p)
    /\ nimp < MaxImports
    /\ nreq' = nreq + 1
    /\ nimp' = nimp + 1
    /\ Receive(p, [kind |-> "import", upload |-> up])
    /\ IF up.file = "none"
       THEN /\ Respond(p, [status |-> 400, success |-> FALSE,
                           error |-> "Aucun fichier Excel fourni"])
            /\ loc' = [loc EXCEPT ![p] = NoLoc]
            /\ UNCHANGED uploads
       ELSE IF up.file = "unreadable"
       THEN \* readFile throws: the catch of lines 577-593 removes the file
            /\ Respond(p, [status |-> 500, success |-> FALSE,
                           error |-> "Erreur lors de l'import"])
            /\ loc' = [loc EXCEPT ![p] = NoLoc]
            /\ uploads' = uploads \ {p}
       ELSE IF up.file = "nosheet"
       THEN \* lines 433-438 return without removing the file
            /\ Respond(p, [status |-> 400, success |-> FALSE,
                           error |-> "Aucune feuille de calcul trouvee dans le fichier"])
            /\ loc' = [loc EXCEPT ![p] = NoLoc]
            /\ uploads' = uploads \cup {p}
       ELSE /\ pc' = [pc EXCEPT ![p] = "inserting"]
            /\ loc' = [loc EXCEPT ![p] =
                          [step |-> "inserting", next |-> 1,
                           imported |-> 0, duplicates |-> 0] @@
                          [vins |-> ParseRows(up.rows, 1, [vins |-> <<>>, errors |-> <<>>]).vins,
                           errors |-> ParseRows(up.rows, 1, [vins |-> <<>>, errors |-> <<>>]).errors]]
            /\ resp' = [resp EXCEPT ![p] = NoResp]
            /\ uploads' = uploads \cup {p}
    /\ UNCHANGED <<store, seq, now>>

\* lines 525-550, one turn of the loop: the database runs the INSERT of the
\* next entry, the handler counts the outcome
ImportInsert(p) ==
    /\ pc[p] = "inserting"
    /\ loc[p].next <= Len(loc[p].vins)
    /\ LET a == loc[p].vins[loc[p].next]
           err == InsertError(store, a.code, a.ipAddress)
           row == NewRow(store, seq, now, a.code, a.date, a.userAgent, a.ipAddress)
       IN  /\ store' = IF err = "none" THEN store \cup {row} ELSE store
           /\ seq' = IF ConsumesId(err) THEN NextId(store, seq) ELSE seq
           /\ loc' = [loc EXCEPT ![p] =
                  [@ EXCEPT
                     !.next = @ + 1,
                     !.imported = IF err = "none" THEN @ + 1 ELSE @,
                     !.duplicates =
                        IF err # "none" /\ ErrorConstraint(err) = "vins_code_key"
                        THEN @ + 1 ELSE @,
                     !.errors =
                        IF err # "none" /\ ErrorConstraint(err) # "vins_code_key"
                        THEN Append(@, RowError(0, ErrorMessage(err), a.code))
                        ELSE @]]
    /\ UNCHANGED <<now, nreq, nimp, pc, req, resp, uploads>>

\* errors.slice(0, 10)
ErrorsListCap == 10
\* faulty variant: the last n entries
SliceTail(s, n) == SubSeq(s, IF Len(s) < n THEN 1 ELSE Len(s) - n + 1, Len(s))
Slice(s, n) == SubSeq(s, 1, IF Len(s) < n THEN Len(s) ELSE n)

\* lines 552-575: after the loop, remove the upload and send the summary
ImportFinish(p) ==
    /\ pc[p] = "inserting"
    /\ loc[p].next > Len(loc[p].vins)
    /\ uploads' = uploads \ {p}
    /\ Respond(p, [status |-> 200, success |-> TRUE,
                   summary |-> [totalLines |-> Len(loc[p].vins),
                                imported |-> loc[p].imported,
                                duplicates |-> loc[p].duplicates,
                                errors |-> Len(loc[p].errors)],
                   details |-> [importedCount |-> loc[p].imported,
                                duplicatesCount |-> loc[p].duplicates,
                                errorsCount |-> Len(loc[p].errors),
                                errorsList |-> Slice(loc[p].errors, ErrorsListCap)]])
    /\ UNCHANGED <<store, seq, now, nreq, nimp, req, loc>>

----------------------------------------------------------------------------
(* GET /api/vins/export  (server.js 653-715) *)

NoExport == [sheet |-> <<>>, of |-> {}]

\* the return value of getTimeElapsed: the wording and the number in it
Elapsed(label, n) == [label |-> label, n |-> n]

\* faulty variant: weeks, months and years are counted from the next one up
getTimeElapsedRoundUp(date, t) ==
    LET diffInDays == (t - date) \div TicksPerDay IN
    IF diffInDays = 0 THEN Elapsed("Aujourd'hui", 0)
    ELSE IF diffInDays = 1 THEN Elapsed("Hier", 0)
    ELSE IF diffInDays < 7 THEN Elapsed("il y a N jours", diffInDays)
    ELSE IF diffInDays < 30 THEN Elapsed("il y a N semaines", (diffInDays \div 7) + 1)
    ELSE IF diffInDays < 365 THEN Elapsed("il y a N mois", (diffInDays \div 30) + 1)
    ELSE Elapsed("il y a N ans", (diffInDays \div 365) + 1)

\* lines 669-680, with now = t
getTimeElapsed(date, t) ==
    LET diffInDays == (t - date) \div TicksPerDay IN
    IF diffInDays = 0 THEN Elapsed("Aujourd'hui", 0)
    ELSE IF diffInDays = 1 THEN Elapsed("Hier", 0)
    ELSE IF diffInDays < 7 THEN Elapsed("il y a N jours", diffInDays)
    ELSE IF diffInDays < 30 THEN Elapsed("il y a N semaines", diffInDays \div 7)
    ELSE IF diffInDays < 365 THEN Elapsed("il y a N mois", diffInDays \div 30)
    ELSE Elapsed("il y a N ans", diffInDays \div 365)

\* new Date(row.date_created).toLocaleString('fr-FR'): the text
\* DD/MM/YYYY HH:MM:SS of the local date and time, without the part of the
\* instant below the second
toLocaleString(t) ==
    LET d == DateOf(t)
        sec == SecondOfDay(t)
    IN  FrenchText(d.day, d.month, d.year,
                   sec \div 3600, (sec \div 60) % 60, sec % 60)

\* lines 682-691: the cells of the row added for a row of the table
ExportRow(row, t) ==
    [id |-> row.id,
     code |-> CodeCell("string", row.code),
     date |-> toLocaleString(row.date_created),
     elapsed |-> getTimeElapsed(row.date_created, t),
     ua |-> IF row.user_agent # NULL THEN row.user_agent ELSE "Non specifie",
     ip |-> IF row.ip_address # NULL THEN row.ip_address ELSE "Non specifie"]

\* row 1: the headers of worksheet.columns (lines 660-667)
ExportHeader ==
    [id |-> 0,
     code |-> CodeCell("string", <<"C","o","d","e"," ","V","I","N">>),
     date |-> DateCell("string", "garbage", 0),
     elapsed |-> Elapsed("Temps Ecoule", 0),
     ua |-> "Navigateur",
     ip |-> "Adresse IP"]

\* lines 655-709: SELECT the rows, build the sheet, send it
ExportVins(p) ==
    /\ CanReceive(p)
    /\ nreq' = nreq + 1
    /\ Receive(p, [kind |-> "export"])
    /\ loc' = [loc EXCEPT ![p] = NoLoc]
    /\ \E rows \in OrderedByCreatedAtDesc(store) :
          LET sheet == <<ExportHeader>> \o [i \in 1..Len(rows) |-> ExportRow(rows[i], now)]
          IN  /\ Respond(p, [status |-> 200, sheet |-> sheet])
              /\ exported' = [sheet |-> sheet, of |-> store]
    /\ UNCHANGED <<store, seq, now, nimp, uploads, vin, valid>>

\* initDatabase (lines 131-198) of a server started on a database that has no
\* table vins yet
FreshDatabase ==
    /\ \A p \in Procs : Free(p)
    /\ store # {}
    /\ store' = {}
    /\ seq' = 0
    /\ UNCHANGED <<now, nreq, nimp, pc, req, loc, resp, uploads>>

----------------------------------------------------------------------------
(* The clock *)

\* only differences of instants matter: the clock starts with the first request
Tick ==
    /\ now < MaxTime
    /\ nreq > 0
    /\ now' = now + 1
    /\ UNCHANGED <<store, seq, nreq, nimp, pc, req, loc, resp, uploads>>

----------------------------------------------------------------------------
(* The server *)

\* request bodies {code, date, userAgent} of POST /api/vins: an acceptable code
\* with and without date and userAgent; codes the handler is to reject
CreateBody(code, date, ua) == [code |-> code, date |-> date, userAgent |-> ua]
CreateBodies ==
    {CreateBody(VIN_A, NoDate, NULL), CreateBody(VIN_A, 0, "Mozilla/5.0"),
     CreateBody(VIN_B, NoDate, "Mozilla/5.0"), CreateBody(VIN_B, 0, NULL)}
        \cup {CreateBody(c, NoDate, NULL) :
                 c \in {<<>>, VIN_A_LOWER, VIN_WITH_I, VIN_SHORT}}

Init ==
    /\ store = {}
    /\ seq = 0
    /\ now = 0
    /\ nreq = 0
    /\ nimp = 0
    /\ pc = [p \in Procs |-> "idle"]
    /\ req = [p \in Procs |-> NoReq]
    /\ loc = [p \in Procs |-> NoLoc]
    /\ resp = [p \in Procs |-> NoResp]
    /\ uploads = {}
    /\ vin = <<>>
    /\ valid = "unset"
    /\ exported = NoExport

Next ==
    \/ \E p \in Procs, body \in CreateBodies :
          PostVinStart(p, body) /\ UNCHANGED harnessVars
    \/ \E p \in Procs : PostVinInsert(p) /\ UNCHANGED harnessVars
    \/ \E p \in Procs, id \in IdParams : DeleteVinStart(p, id) /\ UNCHANGED harnessVars
    \/ \E p \in Procs : DeleteVinExec(p) /\ UNCHANGED harnessVars
    \/ \E p \in Procs : ListVins(p) /\ UNCHANGED harnessVars
    \/ \E p \in Procs, up \in Uploads : ImportStart(p, up) /\ UNCHANGED harnessVars
    \/ \E p \in Procs : ImportInsert(p) /\ UNCHANGED harnessVars
    \/ \E p \in Procs : ImportFinish(p) /\ UNCHANGED harnessVars
    \/ Tick /\ UNCHANGED harnessVars

Spec == Init /\ [][Next]_vars


----------------------------------------------------------------------------
(* isValidVIN on its own: the argument is drawn from strings around the     *)
(* 17-character boundary and around the character class                     *)

TestChars == {"A","H","J","N","P","R","Z","0","9","I","O","Q","a","i","q","z"," ","-"}

Replace(s, i, c) == [s EXCEPT ![i] = c]

RECURSIVE Repeat(_, _)
Repeat(c, n) == IF n = 0 THEN <<>> ELSE <<c>> \o Repeat(c, n - 1)

VinInputs ==
    {<<>>}
      \cup {Replace(b, i, c) : b \in {VIN_A, VIN_B}, i \in 1..VinLength, c \in TestChars}
      \cup UNION {{SubSeq(Replace(VIN_A, i, c), 1, VinLength - k) :
                      i \in 1..VinLength, c \in TestChars} : k \in 1..MaxPad}
      \cup UNION {{Replace(VIN_A, i, c) \o Repeat(d, k) :
                      i \in 1..VinLength, c \in TestChars, d \in TestChars} :
                  k \in 1..MaxPad}
      \cup UNION {{Repeat(d, k) \o VIN_B : d \in TestChars} : k \in 1..MaxPad}

InitValid ==
    /\ store = {}
    /\ seq = 0
    /\ now = 0
    /\ nreq = 0
    /\ nimp = 0
    /\ pc = [p \in Procs |-> "idle"]
    /\ req = [p \in Procs |-> NoReq]
    /\ loc = [p \in Procs |-> NoLoc]
    /\ resp = [p \in Procs |-> NoResp]
    /\ uploads = {}
    /\ vin \in VinInputs
    /\ valid = "unset"
    /\ exported = NoExport

Validate ==
    /\ valid = "unset"
    /\ valid' = IF isValidVIN(vin) THEN "true" ELSE "false"
    /\ UNCHANGED <<vin, exported, serverVars>>

NextValid == Validate

SpecValid == InitValid /\ [][NextValid]_vars


----------------------------------------------------------------------------
(* The import on its own: one request, its sheet drawn from rows that vary  *)
(* the code cell and the date cell, under a header row of either kind       *)

\* 17 digits: a VIN that a sheet may hold as a number
VIN_DIGITS == <<"1","2","3","4","5","6","7","8","9","0","1","2","3","4","5","6","7">>

ImportCodeCells ==
    { CodeCell("string", VIN_A), CodeCell("string", VIN_B_PADDED),
      CodeCell("string", VIN_WITH_I), CodeCell("string", <<" ">>),
      CodeCell("string", <<>>), CodeCell("null", <<>>),
      CodeCell("number", VIN_DIGITS) }

ImportDateCells ==
    { DateCell("date", "-", At(2025, 5, 30, 10, 41, 24, 1)),
      DateCell("date", "invalid", 0),
      DateCell("null", "-", 0),
      DateCell("number", "-", 45807),
      DateCell("number", "-", 0),
      FrenchText(1, 2, 2025, 10, 41, 24),
      FrenchText(31, 2, 2025, 9, 5, 7),
      FrenchText(12, 31, 2025, 0, 0, 0),
      DateCell("string", "iso", At(2025, 2, 1, 10, 41, 24, 0)),
      DateCell("string", "garbage", 0),
      DateCell("string", "empty", 0) }

ImportRows ==
    {SheetRow(CodeCell("string", VIN_A), d, NULL, "10.0.0.1") : d \in ImportDateCells}
      \cup {SheetRow(c, FrenchText(1, 2, 2025, 10, 41, 24), "Mozilla/5.0", "10.0.0.1") :
                c \in ImportCodeCells}
      \cup {SheetRow(CodeCell("string", VIN_WITH_I), DateCell("string", "garbage", 0),
                      NULL, NULL)}

\* a first row that reads like a data row
HeaderLikeData ==
    SheetRow(CodeCell("string", VIN_B), FrenchText(1, 2, 2025, 10, 41, 24),
             "Mozilla/5.0", "10.0.0.1")

ImportUploads ==
    {[file |-> "ok", rows |-> <<h>> \o d] :
        h \in {HeaderRow, HeaderLikeData},
        d \in UNION {[1..n -> ImportRows] : n \in 0..MaxRows}}

NextImport ==
    \/ \E p \in Procs, up \in ImportUploads :
          ImportStart(p, up) /\ UNCHANGED harnessVars
    \/ \E p \in Procs : ImportInsert(p) /\ UNCHANGED harnessVars
    \/ \E p \in Procs : ImportFinish(p) /\ UNCHANGED harnessVars

SpecImport == Init /\ [][NextImport]_vars

----------------------------------------------------------------------------
(* The list and the search over a table that holds up to two records; the   *)
(* table does not change while the requests are answered                    *)

\* recordedAt of the samples: the last tick of 14 June, the first and the
\* last tick of 15 June, the first tick of 16 June 2025
SearchDates ==
    { At(2025, 6, 14, 23, 59, 59, TicksPerSecond - 1), At(2025, 6, 15, 0, 0, 0, 0),
      At(2025, 6, 15, 23, 59, 59, TicksPerSecond - 1), At(2025, 6, 16, 0, 0, 0, 0) }
\* createdAt of the samples, and the clock when the requests arrive
SearchCreatedFirst == At(2025, 6, 17, 8, 0, 0, 0)
SearchCreatedSecond == At(2025, 6, 17, 8, 0, 1, 0)
SearchNow == At(2025, 6, 18, 12, 0, 0, 0)

SearchRecord(id, code, date, created) ==
    [id |-> id, code |-> code, date_created |-> date,
     user_agent |-> NULL, ip_address |-> ClientIp, created_at |-> created]

SearchStores ==
    {{}}
      \cup {{SearchRecord(1, VIN_A, d, SearchCreatedFirst)} : d \in SearchDates}
      \cup {{SearchRecord(1, VIN_A, d1, SearchCreatedFirst),
              SearchRecord(2, VIN_B, d2, c)} :
                d1 \in SearchDates,
                d2 \in {d \in SearchDates : d <= At(2025, 6, 15, 0, 0, 0, 0)},
                c \in {SearchCreatedFirst, SearchCreatedSecond}}

SearchTexts ==
    { <<>>, <<"1","h","g">>, <<"4","5","6">>, <<"_">>, <<"1","%","6">> }
SearchDays == {NoDay, DaysFromCivil(2025, 6, 15)}
SearchQueries ==
    {SearchQuery(q, f, t) : q \in SearchTexts, f \in SearchDays, t \in SearchDays}

InitSearch ==
    /\ store \in SearchStores
    /\ seq = Cardinality(store)
    /\ now = SearchNow
    /\ nreq = 0
    /\ nimp = 0
    /\ pc = [p \in Procs |-> "idle"]
    /\ req = [p \in Procs |-> NoReq]
    /\ loc = [p \in Procs |-> NoLoc]
    /\ resp = [p \in Procs |-> NoResp]
    /\ uploads = {}
    /\ vin = <<>>
    /\ valid = "unset"
    /\ exported = NoExport

NextSearch ==
    \/ \E p \in Procs, query \in SearchQueries :
          SearchVinsStart(p, query) /\ UNCHANGED harnessVars
    \/ \E p \in Procs : SearchVinsExec(p) /\ UNCHANGED harnessVars
    \/ \E p \in Procs : ListVins(p) /\ UNCHANGED harnessVars

SpecSearch == InitSearch /\ [][NextSearch]_vars

----------------------------------------------------------------------------
(* The statistics over a table that holds up to two records, at noon of     *)
(* 15 June 2025; the table and the clock stand still while the requests     *)
(* are answered                                                             *)

StatsNow == At(2025, 6, 15, 12, 0, 0, 0)
\* createdAt of the samples: around the midnights that begin today, the day
\* seven days ago and the month, around the instant seven days ago, and a
\* year ago
StatsCreated ==
    { At(2025, 6, 15, 11, 59, 59, 0), At(2025, 6, 15, 0, 0, 0, 0),
      At(2025, 6, 14, 23, 59, 59, TicksPerSecond - 1),
      At(2025, 6, 8, 13, 0, 0, 0), At(2025, 6, 8, 10, 0, 0, 0),
      At(2025, 6, 7, 23, 59, 59, 0),
      At(2025, 6, 1, 0, 0, 0, 0), At(2025, 5, 31, 23, 59, 59, 0),
      At(2024, 6, 15, 12, 0, 0, 0) }

StatsStores ==
    {{}}
      \cup {{SearchRecord(1, VIN_A, c, c)} : c \in StatsCreated}
      \cup UNION {{{SearchRecord(1, VIN_A, c1, c1), SearchRecord(2, VIN_B, c2, c2)} :
                      c2 \in {c \in StatsCreated : c >= c1}} : c1 \in StatsCreated}

InitStats ==
    /\ store \in StatsStores
    /\ seq = Cardinality(store)
    /\ now = StatsNow
    /\ nreq = 0
    /\ nimp = 0
    /\ pc = [p \in Procs |-> "idle"]
    /\ req = [p \in Procs |-> NoReq]
    /\ loc = [p \in Procs |-> NoLoc]
    /\ resp = [p \in Procs |-> NoResp]
    /\ uploads = {}
    /\ vin = <<>>
    /\ valid = "unset"
    /\ exported = NoExport

NextStats ==
    \/ \E p \in Procs : StatsStart(p) /\ UNCHANGED harnessVars
    \/ \E p \in Procs : StatsQuery(p) /\ UNCHANGED harnessVars

SpecStats == InitStats /\ [][NextStats]_vars

----------------------------------------------------------------------------
(* Export and import again: the table holds up to two records, a client     *)
(* downloads the export, and uploads it to a server with an empty table     *)

ExportNow == At(2025, 6, 15, 12, 0, 0, 0)
\* recordedAt of the samples, as days, seconds and ticks before ExportNow
Before(days, seconds, ticks) ==
    ExportNow - days * TicksPerDay - seconds * TicksPerSecond - ticks
ExportDates ==
    { Before(0, -3600, 0), Before(0, 0, -1), Before(0, 0, 0), Before(0, 3600, 1),
      Before(0, SecondsPerDay - 1, 0),
      Before(1, 0, 0), Before(1, SecondsPerDay - 1, 1), Before(2, 0, 0),
      Before(6, SecondsPerDay - 1, 0), Before(7, 0, 0), Before(13, 60, 0),
      Before(14, 0, 0), Before(29, 0, 0), Before(30, 0, 0), Before(59, 0, 1),
      Before(60, 0, 0), Before(364, 0, 0), Before(365, 0, 0), Before(729, 3600, 0),
      Before(730, 0, 0) }

ExportStores ==
    {{}}
      \cup {{SearchRecord(1, VIN_A, d, ExportNow)} : d \in ExportDates}
      \cup {{SearchRecord(1, VIN_A, d1, SearchCreatedFirst),
              SearchRecord(2, VIN_B, d2, SearchCreatedSecond)} :
                d1 \in ExportDates,
                d2 \in {Before(0, 3600, 0), Before(0, 3600, 1), Before(400, 0, 0)}}

InitExport ==
    /\ store \in ExportStores
    /\ seq = Cardinality(store)
    /\ now = ExportNow
    /\ nreq = 0
    /\ nimp = 0
    /\ pc = [p \in Procs |-> "idle"]
    /\ req = [p \in Procs |-> NoReq]
    /\ loc = [p \in Procs |-> NoLoc]
    /\ resp = [p \in Procs |-> NoResp]
    /\ uploads = {}
    /\ vin = <<>>
    /\ valid = "unset"
    /\ exported = NoExport

NextExport ==
    \/ \E p \in Procs : exported = NoExport /\ ExportVins(p)
    \/ exported # NoExport /\ nimp = 0 /\ FreshDatabase /\ UNCHANGED harnessVars
    \/ \E p \in Procs :
          /\ exported # NoExport
          /\ store = {}
          /\ ImportStart(p, [file |-> "ok", rows |-> exported.sheet])
          /\ UNCHANGED harnessVars
    \/ \E p \in Procs : ImportInsert(p) /\ UNCHANGED harnessVars
    \/ \E p \in Procs : ImportFinish(p) /\ UNCHANGED harnessVars

SpecExport == InitExport /\ [][NextExport]_vars

----------------------------------------------------------------------------
(* The import of long sheets: one request, its sheet a pattern of rows      *)
(* repeated up to MaxLongRows data rows, so that the error list outgrows    *)
(* the ten entries the summary shows                                        *)

MaxLongRows == 12

\* rows the table takes (when the code is new), rows the parse refuses, and
\* a row whose INSERT the table refuses for its address
RowOfA == SheetRow(CodeCell("string", VIN_A), DateCell("date", "-", 0),
                   "Mozilla/5.0", "10.0.0.1")
RowOfB == SheetRow(CodeCell("string", VIN_B_PADDED), FrenchText(1, 1, 2025, 0, 0, 0),
                   NULL, "10.0.0.1")
RowBadCode == SheetRow(CodeCell("string", VIN_WITH_I), DateCell("date", "-", 0),
                       NULL, "10.0.0.1")
RowBadDate == SheetRow(CodeCell("string", VIN_B), DateCell("string", "garbage", 0),
                       NULL, "10.0.0.1")
RowNoAddress == SheetRow(CodeCell("string", VIN_DIGITS), DateCell("date", "-", 0),
                         NULL, NULL)

RowPatterns ==
    { <<RowBadCode>>,
      <<RowNoAddress>>,
      <<RowBadDate, RowNoAddress>>,
      <<RowNoAddress, RowBadCode, RowOfA>>,
      <<RowOfA, RowBadCode, RowOfA, RowNoAddress, RowOfB, RowBadDate>> }

\* the sheet of n data rows that repeats pattern pat
LongSheet(pat, n) ==
    <<HeaderRow>> \o [i \in 1..n |-> pat[((i - 1) % Len(pat)) + 1]]

LongUploads ==
    {[file |-> "ok", rows |-> LongSheet(pat, n)] :
        pat \in RowPatterns, n \in 0..MaxLongRows}

NextSummary ==
    \/ \E p \in Procs, up \in LongUploads :
          ImportStart(p, up) /\ UNCHANGED harnessVars
    \/ \E p \in Procs : ImportInsert(p) /\ UNCHANGED harnessVars
    \/ \E p \in Procs : ImportFinish(p) /\ UNCHANGED harnessVars

SpecSummary == Init /\ [][NextSummary]_vars

----------------------------------------------------------------------------
(* POST /api/ocr/process  (server.js 218-243) *)

\* the class of /[A-HJ-NPR-Z0-9]{17}/g, written as its ranges
OcrClass ==
    {UpperSeq[i] : i \in 1..8} \cup {UpperSeq[i] : i \in 10..14} \cup {"P"}
       \cup {UpperSeq[i] : i \in 18..26} \cup Digits
OcrRun == 17

\* the regex matches at position i of text
MatchAt(text, i) ==
    /\ i + OcrRun - 1 <= Len(text)
    /\ \A k \in i..(i + OcrRun - 1) : text[k] \in OcrClass

\* faulty variant: the position of the last match at or after i
RECURSIVE LastVinMatch(_, _)
LastVinMatch(text, i) ==
    IF i + OcrRun - 1 > Len(text) THEN 0
    ELSE LET later == LastVinMatch(text, i + 1) IN
         IF later # 0 THEN later ELSE IF MatchAt(text, i) THEN i ELSE 0

\* fullText.match(vinRegex): the scan from position i, left to right; the
\* position of the first match, 0 when there is none (match returns null)
RECURSIVE FirstVinMatch(_, _)
FirstVinMatch(text, i) ==
    IF i + OcrRun - 1 > Len(text) THEN 0
    ELSE IF MatchAt(text, i) THEN i
    ELSE FirstVinMatch(text, i + 1)

\* what the text detection of the provider comes to: "throws" (the call
\* rejects with an Error of this message), "none" (no text annotations),
\* "text" (textAnnotations[0].description is text)
Detection(kind, text, message) == [kind |-> kind, text |-> text, message |-> message]

\* error.message of the TypeError of image.replace when the body has no image
NoImageMessage == "Cannot read properties of undefined (reading 'replace')"

\* faulty variant: the catch block answers with a text of its own
OcrFailureGeneric(message) ==
    [status |-> 500, success |-> FALSE, error |-> "Erreur OCR"]
\* lines 239-242: the catch block
OcrFailure(message) == [status |-> 500, success |-> FALSE, error |-> message]

\* lines 219-222: take the image from the body; the provider is called and
\* the handler waits for its answer
OcrStart(p, image, detection) ==
    /\ CanReceive(p)
    /\ nreq' = nreq + 1
    /\ Receive(p, [kind |-> "ocr", image |-> image, detection |-> detection])
    /\ loc' = [loc EXCEPT ![p] = NoLoc]
    /\ IF image = "absent"
       THEN Respond(p, OcrFailure(NoImageMessage))
       ELSE /\ pc' = [pc EXCEPT ![p] = "detect"]
            /\ resp' = [resp EXCEPT ![p] = NoResp]
    /\ UNCHANGED <<store, seq, now, nimp, uploads>>

\* lines 224-242: the provider has answered
OcrDetect(p) ==
    /\ pc[p] = "detect"
    /\ LET d == req[p].detection
           at == FirstVinMatch(d.text, 1)
       IN  IF d.kind = "throws"
           THEN Respond(p, OcrFailure(d.message))
           ELSE IF d.kind = "none"
           THEN Respond(p, [status |-> 200, success |-> FALSE,
                            message |-> "Aucun texte detecte"])
           ELSE IF at # 0
           THEN Respond(p, [status |-> 200, success |-> TRUE,
                            vin |-> SubSeq(d.text, at, at + OcrRun - 1),
                            allText |-> d.text])
           ELSE Respond(p, [status |-> 200, success |-> FALSE,
                            message |-> "Aucun VIN trouve",
                            allText |-> d.text])
    /\ UNCHANGED <<store, seq, now, nreq, nimp, req, loc, uploads>>

\* texts a photograph may come to: what stands before the code, the code or
\* what looks like one, what stands after it
OcrBefore ==
    { <<>>, <<"V","I","N",":"," ">>, <<"S","N">>, <<"n","o","\n">>,
      <<"W","M","I","9","9">> }
OcrCodes == {<<>>, VIN_A, VIN_A_LOWER, VIN_SHORT, VIN_WITH_I}
OcrAfter == {<<>>, <<"7">>, <<"\n">> \o VIN_B, <<" ","k","m">>}
OcrTexts == {b \o c \o a : b \in OcrBefore, c \in OcrCodes, a \in OcrAfter}
ProviderMessage == "7 PERMISSION_DENIED: Cloud Vision API has not been used"
Detections ==
    {Detection("text", t, "") : t \in OcrTexts}
       \cup {Detection("none", <<>>, ""), Detection("throws", <<>>, ProviderMessage)}

\* the OCR requests of a run
MaxOcr == 1

NextOcr ==
    \/ \E p \in Procs, image \in {"present", "absent"}, d \in Detections :
          nreq < MaxOcr /\ OcrStart(p, image, d) /\ UNCHANGED harnessVars
    \/ \E p \in Procs : OcrDetect(p) /\ UNCHANGED harnessVars

SpecOcr == Init /\ [][NextOcr]_vars

----------------------------------------------------------------------------
(* Every route of the server together, each with a few inputs, so that the  *)
(* requests of all kinds interleave                                         *)

ServerBodies ==
    {CreateBody(VIN_A, NoDate, NULL), CreateBody(VIN_B, 0, "Mozilla/5.0"),
     CreateBody(VIN_WITH_I, NoDate, NULL), CreateBody(<<>>, NoDate, NULL)}
ServerQueries == {SearchQuery(<<"1","h","g">>, NoDay, NoDay)}
ServerUploads ==
    {[file |-> f, rows |-> <<>>] : f \in {"unreadable", "nosheet"}}
       \cup {[file |-> "ok", rows |-> <<HeaderRow, RowOfB>>]}
ServerDetections ==
    {Detection("text", VIN_A, ""), Detection("none", <<>>, ""),
     Detection("throws", <<>>, ProviderMessage)}

NextServer ==
    \/ \E p \in Procs, body \in ServerBodies :
          PostVinStart(p, body) /\ UNCHANGED harnessVars
    \/ \E p \in Procs : PostVinInsert(p) /\ UNCHANGED harnessVars
    \/ \E p \in Procs, id \in IdParams : DeleteVinStart(p, id) /\ UNCHANGED harnessVars
    \/ \E p \in Procs : DeleteVinExec(p) /\ UNCHANGED harnessVars
    \/ \E p \in Procs : ListVins(p) /\ UNCHANGED harnessVars
    \/ \E p \in Procs, query \in ServerQueries :
          SearchVinsStart(p, query) /\ UNCHANGED harnessVars
    \/ \E p \in Procs : SearchVinsExec(p) /\ UNCHANGED harnessVars
    \/ \E p \in Procs : StatsStart(p) /\ UNCHANGED harnessVars
    \/ \E p \in Procs : StatsQuery(p) /\ UNCHANGED harnessVars
    \/ \E p \in Procs : ExportVins(p)
    \/ \E p \in Procs, up \in ServerUploads : ImportStart(p, up) /\ UNCHANGED harnessVars
    \/ \E p \in Procs : ImportInsert(p) /\ UNCHANGED harnessVars
    \/ \E p \in Procs : ImportFinish(p) /\ UNCHANGED harnessVars
    \/ \E p \in Procs, d \in ServerDetections :
          OcrStart(p, "present", d) /\ UNCHANGED harnessVars
    \/ \E p \in Procs : OcrStart(p, "absent", Detection("none", <<>>, ""))
                            /\ UNCHANGED harnessVars
    \/ \E p \in Procs : OcrDetect(p) /\ UNCHANGED harnessVars
    \/ Tick /\ UNCHANGED harnessVars

SpecServer == Init /\ [][NextServer]_vars

----------------------------------------------------------------------------
(* Properties *)

\* the VIN alphabet, written out: digits and capital letters but I, O, Q
StandardVinChars == Digits \cup (UpperLetters \ {"I", "O", "Q"})
WellFormedVin(s) == Len(s) = 17 /\ \A i \in 1..Len(s) : s[i] \in StandardVinChars

Stored(st, code) == \E r \in st : r.code = code

\* this step is the arrival of a request at slot p
Arrives(p) == CanReceive(p) /\ nreq' = nreq + 1
\* this step is the INSERT of the create request held by slot p
CreateInserts(p) == pc[p] = "insert" /\ pc'[p] = "done"
\* this step is the INSERT of the next entry of the import held by slot p
ImportInserts(p) == pc[p] = "inserting" /\ loc'[p].next = loc[p].next + 1
\* this step is the DELETE of the delete request held by slot p
DeleteExecutes(p) == pc[p] = "delete" /\ pc'[p] = "done"

Answered(p, kind) == pc[p] = "done" /\ req[p].kind = kind

\* C1: in every reachable state, whatever create, import and delete requests
\* were handled and however they interleaved, no two stored records have the
\* same code.
C1_UniqueCodes ==
    \A r1 \in store : \A r2 \in store : r1.code = r2.code => r1 = r2

\* an import counted a duplicate while two records with different codes are stored
C1_Witness ==
    /\ Cardinality(store) = 2
    /\ \E p \in Procs :
          /\ Answered(p, "import")
          /\ resp[p].status = 200
          /\ resp[p].summary.duplicates >= 1

\* C2: in every reachable state, every stored record's code has exactly 17
\* characters, each a digit or a capital letter other than I, O and Q.
C2_StoredCodesWellFormed ==
    \A r \in store : WellFormedVin(r.code)

\* an import stored VIN_B from a padded lowercase cell and turned down another row
C2_Witness ==
    /\ \E r \in store : r.code = VIN_B /\ r.user_agent = "Import Excel"
    /\ \E p \in Procs :
          /\ Answered(p, "import")
          /\ resp[p].status = 200
          /\ resp[p].summary.imported = 1
          /\ resp[p].summary.errors = 1
          /\ \E n \in 2..Len(req[p].upload.rows) :
                req[p].upload.rows[n].code.s = VIN_B_PADDED

\* C3: isValidVIN(s) is true iff s has exactly 17 characters, each a digit or
\* a capital letter other than I, O and Q; it is false for every string of
\* another length, every string with an I, O or Q and every string with a
\* lowercase letter.
C3_IsValidVinIff ==
    valid # "unset" =>
        /\ valid = "true" <=> WellFormedVin(vin)
        /\ Len(vin) # 17 => valid = "false"
        /\ (\E i \in 1..Len(vin) : vin[i] \in {"I", "O", "Q"}) => valid = "false"
        /\ (\E i \in 1..Len(vin) : vin[i] \in LowerLetters) => valid = "false"

\* a 17-character string other than the two sample VINs was found valid
C3_Witness ==
    /\ valid = "true"
    /\ vin \notin {VIN_A, VIN_B}

\* C4: when the INSERT of a create request runs and the request's code is
\* already stored, the response is 409 and the table is left as it was.
C4_DuplicateCreateConflicts ==
    [][\A p \in Procs :
          (CreateInserts(p) /\ Stored(store, req[p].body.code)) =>
              /\ resp'[p].status = 409
              /\ store' = store]_vars

\* a create request was answered 409 and its code is stored
C4_Witness ==
    \E p \in Procs :
       /\ Answered(p, "create")
       /\ resp[p].status = 409
       /\ Stored(store, req[p].body.code)


\* C5: a create request whose code equals a stored code but for the case of
\* its letters is not turned down as invalid: it reaches the INSERT, is
\* answered 409, and no row is added.
C5_CaseInsensitiveConflict ==
    [][\A p \in Procs :
          /\ (/\ Arrives(p)
              /\ req'[p].kind = "create"
              /\ Stored(store, toUpperCase(req'[p].body.code)))
                => pc'[p] = "insert"
          /\ (CreateInserts(p) /\ Stored(store, toUpperCase(req[p].body.code)))
                => (resp'[p].status = 409 /\ store' = store)]_vars

\* C6: a create request with a missing code, or a code isValidVIN refuses, is
\* answered 400 at once: it never reaches the INSERT, and neither the table
\* nor the id sequence changes.
C6_InvalidCreateRejected ==
    [][\A p \in Procs :
          /\ (/\ Arrives(p)
              /\ req'[p].kind = "create"
              /\ (req'[p].body.code = <<>> \/ ~isValidVIN(req'[p].body.code)))
                => /\ pc'[p] = "done"
                   /\ resp'[p].status = 400
                   /\ store' = store
                   /\ seq' = seq
          /\ CreateInserts(p) => WellFormedVin(req[p].body.code)]_vars

\* a code with the letter I was answered 400 while a record is stored
C6_Witness ==
    /\ store # {}
    /\ \E p \in Procs :
          /\ Answered(p, "create")
          /\ resp[p].status = 400
          /\ req[p].body.code = VIN_WITH_I

\* C7: a create request with a code isValidVIN accepts reaches the INSERT;
\* when the INSERT runs and the code is not stored, the response is 201 with
\* a record that has the submitted code and, as its date, the supplied date
\* or else the instant the request arrived, and that record is stored; the
\* list request returns every stored record.
C7_CreateStoresRecord ==
    [][\A p \in Procs :
          /\ (/\ Arrives(p)
              /\ req'[p].kind = "create"
              /\ isValidVIN(req'[p].body.code))
                => pc'[p] = "insert"
          /\ (CreateInserts(p) /\ ~Stored(store, req[p].body.code))
                => /\ resp'[p].status = 201
                   /\ resp'[p].vin.code = req[p].body.code
                   /\ resp'[p].vin.date =
                         IF req[p].body.date = NoDate THEN req[p].at
                         ELSE req[p].body.date
                   /\ \E r \in store' : RowToVin(r) = resp'[p].vin
          /\ (Arrives(p) /\ req'[p].kind = "list")
                => /\ resp'[p].status = 200
                   /\ \A r \in store :
                         \E i \in 1..Len(resp'[p].vins) :
                            resp'[p].vins[i] = RowToVin(r)]_vars

\* a record created without a date, inserted after the clock moved on, is in
\* the list another request was answered with
C7_Witness ==
    \E p \in Procs, q \in Procs :
       /\ Answered(p, "create")
       /\ resp[p].status = 201
       /\ req[p].body.date = NoDate
       /\ resp[p].vin.date = req[p].at
       /\ resp[p].vin.createdAt > resp[p].vin.date
       /\ Answered(q, "list")
       /\ \E i \in 1..Len(resp[q].vins) : resp[q].vins[i] = resp[p].vin

\* C8: a delete request with an integer id is answered 404, the table
\* unchanged, when no record has that id as the handler looks it up, and
\* otherwise goes on to delete; the DELETE answers 200 with the record that
\* was looked up and leaves no record with that id and every other record;
\* a record once gone never returns, and the list returns stored records only.
C8_DeleteIffStored ==
    [][\A p \in Procs :
          /\ (Arrives(p) /\ req'[p].kind = "delete" /\ req'[p].id.form = "integer")
                => IF \E r \in store : r.id = req'[p].id.n
                   THEN /\ pc'[p] = "delete"
                        /\ loc'[p].row \in store
                        /\ loc'[p].row.id = req'[p].id.n
                   ELSE /\ pc'[p] = "done"
                        /\ resp'[p].status = 404
                        /\ store' = store
          /\ DeleteExecutes(p)
                => /\ resp'[p].status = 200
                   /\ resp'[p].deletedVin = loc[p].row
                   /\ resp'[p].deletedVin.id = req[p].id.n
                   /\ ~ \E r \in store' : r.id = req[p].id.n
                   /\ \A r \in store : r.id # req[p].id.n => r \in store'
          /\ \A r \in store' : r.id <= seq => r \in store
          /\ (Arrives(p) /\ req'[p].kind = "list")
                => \A i \in 1..Len(resp'[p].vins) :
                      \E r \in store : resp'[p].vins[i] = RowToVin(r)]_vars

\* the only record was deleted: the answer carries it and the table is empty
C8_Witness ==
    /\ store = {}
    /\ \E p \in Procs :
          /\ Answered(p, "delete")
          /\ resp[p].status = 200
          /\ resp[p].deletedVin.code = VIN_A
          /\ resp[p].deletedVin.id = req[p].id.n

\* the code a write request sends to the table: a create request that reached
\* the INSERT, or an import of one entry
IsWriteOf(p, code) ==
    IF req[p].kind = "create"
    THEN resp[p].status # 400 /\ toUpperCase(req[p].body.code) = code
    ELSE /\ req[p].kind = "import"
         /\ resp[p].status = 200
         /\ Len(loc[p].vins) = 1
         /\ loc[p].vins[1].code = code
WriteSucceeded(p) ==
    IF req[p].kind = "create" THEN resp[p].status = 201
    ELSE resp[p].summary.imported = 1
WriteConflicted(p) ==
    IF req[p].kind = "create" THEN resp[p].status = 409
    ELSE /\ resp[p].summary.duplicates = 1
         /\ resp[p].summary.imported = 0
         /\ \A i \in 1..Len(loc[p].errors) : loc[p].errors[i].line # 0

\* C9: when two writes of the same normalized code were in flight together
\* and one of them succeeded, the other observed a conflict (409, or counted
\* in duplicates and not in errors) and exactly one row has the code.
C9_RaceOneWinsOneConflicts ==
    \A p \in Procs, q \in Procs, code \in {VIN_A, VIN_B} :
       (/\ p # q
        /\ pc[p] = "done" /\ pc[q] = "done"
        /\ Overlapped(p, q)
        /\ IsWriteOf(p, code) /\ IsWriteOf(q, code)
        /\ WriteSucceeded(p))
          => /\ WriteConflicted(q)
             /\ Cardinality({r \in store : r.code = code}) = 1

\* the data rows of an upload the parse accepts: a text code that is a VIN
\* once trimmed and uppercased, and a date that is a Date or a text that parses
AcceptableRow(row) ==
    /\ row.code.t = "string"
    /\ WellFormedVin(toUpperCase(trim(row.code.s)))
    /\ \/ row.date.t = "date" /\ row.date.fmt # "invalid"
       \/ row.date.t = "string" /\ row.date.fmt \in {"french", "iso"}
DataRows(up) == SubSeq(up.rows, 2, Len(up.rows))
AcceptableCodes(up) ==
    LET acc == SelectSeq(DataRows(up), AcceptableRow)
    IN  [i \in 1..Len(acc) |-> toUpperCase(trim(acc[i].code.s))]

\* C10: an import of a readable sheet queues every acceptable data row, in
\* order, whatever rows around it fail to parse; every queued entry has its
\* INSERT run, and an entry the table can take (an address it accepts, a
\* code not stored) is stored whatever happened to the entries before it;
\* the request ends with a 200 summary that counts every data row once.
C10_ImportRowsIndependent ==
    [][\A p \in Procs :
          /\ (Arrives(p) /\ req'[p].kind = "import" /\ req'[p].upload.file = "ok")
                => /\ pc'[p] = "inserting"
                   /\ [i \in 1..Len(loc'[p].vins) |-> loc'[p].vins[i].code]
                         = AcceptableCodes(req'[p].upload)
                   /\ Len(loc'[p].vins) + Len(loc'[p].errors)
                         = Len(DataRows(req'[p].upload))
          /\ ImportInserts(p)
                => LET a == loc[p].vins[loc[p].next] IN
                   (a.ipAddress \in InetTexts /\ ~Stored(store, a.code))
                      => /\ Stored(store', a.code)
                         /\ loc'[p].imported = loc[p].imported + 1
          /\ (pc[p] = "inserting" /\ pc'[p] = "done")
                => /\ resp'[p].status = 200
                   /\ loc[p].next = Len(loc[p].vins) + 1
                   /\ resp'[p].summary.imported + resp'[p].summary.duplicates
                         + resp'[p].summary.errors
                         = Len(DataRows(req[p].upload))]_vars

\* a sheet whose first data row failed at the INSERT and whose second data
\* row was imported
C10_Witness ==
    \E p \in Procs :
       /\ Answered(p, "import")
       /\ resp[p].status = 200
       /\ Len(req[p].upload.rows) = 3
       /\ req[p].upload.rows[2].ip = NULL
       /\ AcceptableRow(req[p].upload.rows[2])
       /\ resp[p].summary.imported = 1
       /\ resp[p].summary.errors = 1
       /\ resp[p].details.errorsList[1].line = 0

\* the code of a data row as the claims describe it
NormalizedCode(row) == toUpperCase(trim(row.code.s))
HasValidCode(row) == row.code.t = "string" /\ WellFormedVin(NormalizedCode(row))
HasParseableDate(row) ==
    \/ row.date.t = "date" /\ row.date.fmt # "invalid"
    \/ row.date.t = "string" /\ row.date.fmt \in {"french", "iso"}
DataRowNumbers(up) == 2..Len(up.rows)
\* how many entries of the error list name row n
ErrorsNaming(errors, n) == Cardinality({i \in 1..Len(errors) : errors[i].line = n})

\* the sheets C11 is about: every data row has a valid code and a parseable
\* date, or an invalid code; the valid codes are distinct
ValidRowNumbers(up) ==
    {n \in DataRowNumbers(up) : HasValidCode(up.rows[n]) /\ HasParseableDate(up.rows[n])}
InvalidRowNumbers(up) ==
    {n \in DataRowNumbers(up) : ~HasValidCode(up.rows[n])}
IsSheetOfValidAndInvalid(up) ==
    /\ up.file = "ok"
    /\ ValidRowNumbers(up) \cup InvalidRowNumbers(up) = DataRowNumbers(up)
    /\ \A m, n \in ValidRowNumbers(up) :
          m # n => NormalizedCode(up.rows[m]) # NormalizedCode(up.rows[n])

\* C11: an import into the empty table, alone, of a sheet with v rows of
\* distinct valid codes and parseable dates and k rows of invalid codes ends
\* with imported = v and errors = k, exactly the v codes stored, and an entry
\* of the error list naming each invalid row.
C11_ImportCountsValidAndInvalid ==
    \A p \in Procs :
       (/\ Answered(p, "import")
        /\ nreq = 1
        /\ IsSheetOfValidAndInvalid(req[p].upload))
          => LET up == req[p].upload IN
             /\ resp[p].status = 200
             /\ resp[p].summary.imported = Cardinality(ValidRowNumbers(up))
             /\ resp[p].summary.errors = Cardinality(InvalidRowNumbers(up))
             /\ {r.code : r \in store}
                   = {NormalizedCode(up.rows[n]) : n \in ValidRowNumbers(up)}
             /\ \A n \in InvalidRowNumbers(up) :
                   ErrorsNaming(resp[p].details.errorsList, n) >= 1

\* C12: when the INSERT of an import entry runs and the entry's code is
\* stored (by an earlier request or by an earlier row of the sheet), the
\* import counts one more duplicate, no more imported, its error list is as
\* it was, and the table is as it was.
C12_ImportDuplicateCounted ==
    [][\A p \in Procs :
          (ImportInserts(p) /\ Stored(store, loc[p].vins[loc[p].next].code))
             => /\ loc'[p].duplicates = loc[p].duplicates + 1
                /\ loc'[p].imported = loc[p].imported
                /\ loc'[p].errors = loc[p].errors
                /\ store' = store]_vars

\* the instant the claims give a date cell: a Date as it is, a french text
\* read day first, another text as new Date() reads it
ResolvedDate(cell) ==
    IF cell.t = "date" THEN cell.v
    ELSE IF cell.fmt = "french"
    THEN At(cell.f[3], cell.f[2], cell.f[1], cell.f[4], cell.f[5], cell.f[6], 0)
    ELSE cell.v

\* the entries the import queues for the rows numbered n and above
RECURSIVE ExpectedQueue(_, _)
ExpectedQueue(up, n) ==
    IF n > Len(up.rows) THEN <<>>
    ELSE IF HasValidCode(up.rows[n]) /\ HasParseableDate(up.rows[n])
    THEN <<[code |-> NormalizedCode(up.rows[n]),
            date |-> ResolvedDate(up.rows[n].date)]>> \o ExpectedQueue(up, n + 1)
    ELSE ExpectedQueue(up, n + 1)

\* C19: of the data rows with a valid code, the import queues those whose
\* date cell is a Date, a text of the pattern DD/MM/YYYY HH:MM:SS or a text
\* new Date() parses, with that Date, the text read day first, or the parsed
\* instant as the date to store; every other such row (date cell empty, of
\* another type, or a text that does not parse) gets exactly one entry of
\* the error list, naming its row number, and is not queued; a record the
\* import stores has the date of its queue entry.
C19_DateCellResolution ==
    [][\A p \in Procs :
          /\ (Arrives(p) /\ req'[p].kind = "import" /\ req'[p].upload.file = "ok")
                => LET up == req'[p].upload IN
                   /\ [i \in 1..Len(loc'[p].vins) |-> loc'[p].vins[i].date]
                         = [i \in 1..Len(ExpectedQueue(up, 2)) |->
                               ExpectedQueue(up, 2)[i].date]
                   /\ \A n \in DataRowNumbers(up) :
                         HasValidCode(up.rows[n]) =>
                            ErrorsNaming(loc'[p].errors, n)
                               = IF HasParseableDate(up.rows[n]) THEN 0 ELSE 1
          /\ ImportInserts(p)
                => \A r \in store' \ store :
                      r.date_created = loc[p].vins[loc[p].next].date]_vars

\* the text 01/02/2025 10:41:24 was stored as 1 February, and the row after
\* it, whose date text does not parse, is in the error list
C19_Witness ==
    \E p \in Procs :
       /\ Answered(p, "import")
       /\ resp[p].status = 200
       /\ Len(req[p].upload.rows) = 3
       /\ req[p].upload.rows[2].date = FrenchText(1, 2, 2025, 10, 41, 24)
       /\ req[p].upload.rows[3].date.fmt = "garbage"
       /\ HasValidCode(req[p].upload.rows[3])
       /\ \E r \in store : DateOf(r.date_created) = [year |-> 2025, month |-> 2, day |-> 1]
       /\ Cardinality(store) = 1
       /\ resp[p].details.errorsList[1].line = 3

\* C20: the import queues exactly the data rows whose code cell is a text
\* that isValidVIN accepts once trimmed and uppercased (and whose date
\* resolves), each with that trimmed, uppercased code; a data row whose code
\* cell is empty, not a text, or invalid gets exactly one entry of the error
\* list; row 1 gets no entry in the queue or in the error list; a record the
\* import stores has the code of its queue entry.
C20_CodeCellCheck ==
    [][\A p \in Procs :
          /\ (Arrives(p) /\ req'[p].kind = "import" /\ req'[p].upload.file = "ok")
                => LET up == req'[p].upload IN
                   /\ [i \in 1..Len(loc'[p].vins) |-> loc'[p].vins[i].code]
                         = [i \in 1..Len(ExpectedQueue(up, 2)) |->
                               ExpectedQueue(up, 2)[i].code]
                   /\ \A n \in DataRowNumbers(up) :
                         ~HasValidCode(up.rows[n]) =>
                            ErrorsNaming(loc'[p].errors, n) = 1
                   /\ ErrorsNaming(loc'[p].errors, 1) = 0
          /\ ImportInserts(p)
                => /\ WellFormedVin(loc[p].vins[loc[p].next].code)
                   /\ \A r \in store' \ store :
                         r.code = loc[p].vins[loc[p].next].code]_vars

\* under a first row that reads like a data row, a padded lowercase code
\* was stored in its normalized form and a code held as a number was refused
C20_Witness ==
    \E p \in Procs :
       /\ Answered(p, "import")
       /\ resp[p].status = 200
       /\ Len(req[p].upload.rows) = 3
       /\ req[p].upload.rows[1] = HeaderLikeData
       /\ req[p].upload.rows[2].code.s = VIN_B_PADDED
       /\ req[p].upload.rows[3].code.t = "number"
       /\ {r.code : r \in store} = {VIN_B}
       /\ resp[p].summary.imported = 1
       /\ resp[p].details.errorsList[1].line = 3

\* str contains sub as a run of consecutive characters, the case of letters
\* aside
ContainsIgnoringCase(str, sub) ==
    \E i \in 1..(Len(str) - Len(sub) + 1) :
       toUpperCase(SubSeq(str, i, i + Len(sub) - 1)) = toUpperCase(sub)

\* the instant at which the calendar day `day` begins
Midnight(day) == (day - EpochDay) * TicksPerDay

\* the records of a list or search response
Returned(p) == {resp[p].vins[i] : i \in 1..Len(resp[p].vins)}

\* C14: a search with a non-empty q and no date bound returns exactly the
\* stored records whose code contains q as a substring, the case of letters
\* aside, whatever characters q is made of.
C14_SearchLiteralSubstring ==
    \A p \in Procs :
       (/\ Answered(p, "search")
        /\ req[p].query.q # <<>>
        /\ req[p].query.dateFrom = NoDay /\ req[p].query.dateTo = NoDay)
          => /\ resp[p].status = 200
             /\ Returned(p)
                   = {RowToVin(r) : r \in {x \in store :
                                              ContainsIgnoringCase(x.code, req[p].query.q)}}

\* C15: the records a search returns are the stored records that are
\* returned for its q alone (every stored record when q is absent) and whose
\* recordedAt falls on a calendar day not before dateFrom and not after
\* dateTo (from the midnight that begins dateFrom to the midnight that ends
\* dateTo), each bound applying when given; a search without q and bounds
\* returns every stored record, as the list does.
C15_SearchFiltersConjunctive ==
    \A p \in Procs :
       Answered(p, "search") =>
          LET query == req[p].query
              InDays(v) ==
                 /\ query.dateFrom # NoDay => v.date >= Midnight(query.dateFrom)
                 /\ query.dateTo # NoDay => v.date < Midnight(query.dateTo + 1)
          IN
          /\ resp[p].status = 200
          /\ query.q = <<>> =>
                Returned(p) = {v \in {RowToVin(r) : r \in store} : InDays(v)}
          /\ \A o \in Procs :
                (/\ Answered(o, "search")
                 /\ req[o].query = SearchQuery(query.q, NoDay, NoDay))
                   => Returned(p) = {v \in Returned(o) : InDays(v)}
          /\ \A o \in Procs :
                (Answered(o, "list") /\ query = SearchQuery(<<>>, NoDay, NoDay))
                   => Returned(p) = Returned(o)

\* a search with q and both bounds was answered next to the search with its
\* q alone: of the two records that q matches, one lies within the bounds
C15_Witness ==
    \E p \in Procs, o \in Procs :
       /\ Answered(p, "search") /\ Answered(o, "search")
       /\ req[p].query.q = <<"4","5","6">>
       /\ req[p].query.dateFrom # NoDay /\ req[p].query.dateTo # NoDay
       /\ req[o].query = SearchQuery(req[p].query.q, NoDay, NoDay)
       /\ Cardinality(Returned(o)) = 2
       /\ Cardinality(Returned(p)) = 1
       /\ \E v \in Returned(p) :
             v.date = At(2025, 6, 15, 23, 59, 59, TicksPerSecond - 1)

\* C16: the list returns every stored record, each exactly once; the
\* records of a list and of a search are in non-increasing order of
\* createdAt.
C16_ListCompleteAndOrdered ==
    \A p \in Procs :
       /\ Answered(p, "list") =>
             /\ Len(resp[p].vins) = Cardinality(store)
             /\ Returned(p) = {RowToVin(r) : r \in store}
       /\ (Answered(p, "list") \/ Answered(p, "search")) =>
             \A i, j \in 1..Len(resp[p].vins) :
                i < j => resp[p].vins[i].createdAt >= resp[p].vins[j].createdAt

\* a list and a search each returned two records, the one created later
\* first although it was recorded earlier
C16_Witness ==
    \E p \in Procs, o \in Procs :
       /\ Answered(p, "list") /\ Answered(o, "search")
       /\ Len(resp[p].vins) = 2 /\ resp[o].vins = resp[p].vins
       /\ resp[p].vins[1].createdAt > resp[p].vins[2].createdAt
       /\ resp[p].vins[1].date < resp[p].vins[2].date

\* C17: the statistics are total = the number of stored records, today =
\* those created between the midnight that began today and the next one,
\* thisWeek = those created within the seven days (seven times 24 hours)
\* before now, thisMonth = those created in the year and month of now.
C17_StatsBuckets ==
    \A p \in Procs :
       Answered(p, "stats") =>
          /\ resp[p].status = 200
          /\ resp[p].stats.total = Cardinality(store)
          /\ resp[p].stats.today =
                Cardinality({r \in store :
                    /\ r.created_at >= Midnight(DayOf(now))
                    /\ r.created_at < Midnight(DayOf(now) + 1)})
          /\ resp[p].stats.thisWeek =
                Cardinality({r \in store :
                    /\ r.created_at >= now - 7 * TicksPerDay
                    /\ r.created_at <= now})
          /\ resp[p].stats.thisMonth =
                Cardinality({r \in store :
                    \E d \in 1..31 :
                       DateOf(r.created_at)
                          = [year |-> DateOf(now).year, month |-> DateOf(now).month,
                             day |-> d]})

\* C13: when the import of an exported sheet into an empty table is done,
\* the table holds one record for each record the export was made from, with
\* the same code and the same recordedAt, and no other record.
C13_ExportImportRoundTrip ==
    \A p \in Procs :
       (/\ Answered(p, "import")
        /\ exported # NoExport
        /\ req[p].upload.rows = exported.sheet)
          => /\ Cardinality(store) = Cardinality(exported.of)
             /\ {[code |-> r.code, date |-> r.date_created] : r \in store}
                   = {[code |-> r.code, date |-> r.date_created] : r \in exported.of}

\* the whole days between recordedAt and now, and the wording C18 gives them
WholeDaysBetween(date, t) == (t - date) \div TicksPerDay
ElapsedFor(d) ==
    IF d < 1 THEN Elapsed("Aujourd'hui", 0)
    ELSE IF d = 1 THEN Elapsed("Hier", 0)
    ELSE IF d < 7 THEN Elapsed("il y a N jours", d)
    ELSE IF d < 30 THEN Elapsed("il y a N semaines", d \div 7)
    ELSE IF d < 365 THEN Elapsed("il y a N mois", d \div 30)
    ELSE Elapsed("il y a N ans", d \div 365)

\* C18: in every exported row, the elapsed-time cell is the wording for d,
\* the whole days between the record's recordedAt and the time of the
\* export: today for d < 1, yesterday for d = 1, d days for d < 7, d div 7
\* weeks for d < 30, d div 30 months for d < 365, d div 365 years otherwise.
C18_ElapsedTimeLabel ==
    \A p \in Procs :
       Answered(p, "export") =>
          \A i \in 2..Len(resp[p].sheet) :
             \A r \in store :
                r.id = resp[p].sheet[i].id =>
                   resp[p].sheet[i].elapsed
                      = ElapsedFor(WholeDaysBetween(r.date_created, now))

\* C21: an import row with a valid code, a parseable date and empty
\* user-agent and address cells is queued with userAgent "Import Excel" and
\* address "Import"; when its INSERT runs and the code is not stored, a
\* record with that code, user agent and address is stored, imported grows
\* by one and the error list is as it was.
C21_ImportDefaultsStored ==
    [][\A p \in Procs :
          /\ (Arrives(p) /\ req'[p].kind = "import" /\ req'[p].upload.file = "ok")
                => LET up == req'[p].upload
                       blank == {n \in DataRowNumbers(up) :
                                    /\ HasValidCode(up.rows[n])
                                    /\ HasParseableDate(up.rows[n])
                                    /\ up.rows[n].ua = NULL
                                    /\ up.rows[n].ip = NULL}
                   IN  \A n \in blank :
                          \E i \in 1..Len(loc'[p].vins) :
                             /\ loc'[p].vins[i].code = NormalizedCode(up.rows[n])
                             /\ loc'[p].vins[i].userAgent = "Import Excel"
                             /\ loc'[p].vins[i].ipAddress = "Import"
          /\ ImportInserts(p)
                => LET a == loc[p].vins[loc[p].next] IN
                   (/\ a.userAgent = "Import Excel"
                    /\ a.ipAddress = "Import"
                    /\ ~Stored(store, a.code))
                      => /\ \E r \in store' :
                               /\ r.code = a.code
                               /\ r.user_agent = "Import Excel"
                               /\ r.ip_address = "Import"
                         /\ loc'[p].imported = loc[p].imported + 1
                         /\ loc'[p].errors = loc[p].errors]_vars

\* C26: a record that enters the table has an id greater than every value
\* the id sequence handed out before, the ids of deleted records included;
\* the sequence never steps back, and no stored id is beyond it.
C26_IdsIncreaseNeverReused ==
    [][/\ \A r \in store' \ store :
             /\ r.id > seq
             /\ \A old \in store : r.id > old.id
       /\ seq' >= seq
       /\ \A r \in store' : r.id <= seq']_vars

\* the record with id 1 was deleted and its code created again: the new
\* record has id 2
C26_Witness ==
    \E p \in Procs, q \in Procs :
       /\ Answered(q, "delete")
       /\ resp[q].status = 200
       /\ resp[q].deletedVin.id = 1
       /\ Answered(p, "create")
       /\ resp[p].status = 201
       /\ resp[p].vin.code = resp[q].deletedVin.code
       /\ resp[p].vin.id > 1
       /\ store = {r \in store : r.id = resp[p].vin.id}
       /\ store # {}

\* C27: of two delete requests for the same id that were in flight
\* together, at most one is answered 200, and the other is answered 404.
C27_ConcurrentDeletesOneWins ==
    \A p \in Procs, q \in Procs :
       (/\ p # q
        /\ Answered(p, "delete") /\ Answered(q, "delete")
        /\ Overlapped(p, q)
        /\ req[p].id.form = "integer"
        /\ req[p].id = req[q].id
        /\ resp[p].status = 200)
          => resp[q].status = 404

\* C30: when an import request that came with a file is answered, whatever
\* the answer, its upload is no longer on disk.
C30_UploadRemoved ==
    \A p \in Procs :
       (Answered(p, "import") /\ req[p].upload.file # "none") => p \notin uploads

\* this step is the answer of the import held by slot p
ImportAnswers(p) == pc[p] = "inserting" /\ pc'[p] = "done"
\* the data rows of an upload the parse refuses
RefusedRowNumbers(up) ==
    {n \in DataRowNumbers(up) : ~AcceptableRow(up.rows[n])}
IsPrefix(s, t) == Len(s) <= Len(t) /\ \A i \in 1..Len(s) : s[i] = t[i]
Min(a, b) == IF a < b THEN a ELSE b

\* C22: the error list of an import starts with one entry per data row the
\* parse refused, in row order; an INSERT that fails on a code that is not
\* stored appends one entry naming the code, any other INSERT leaves the
\* list alone; the summary's error count is the length of that list, and
\* errorsList is its first min(10, count) entries in that order.
C22_ErrorCountAndList ==
    [][\A p \in Procs :
          /\ (Arrives(p) /\ req'[p].kind = "import" /\ req'[p].upload.file = "ok")
                => LET up == req'[p].upload
                       e == loc'[p].errors
                   IN  /\ Len(e) = Cardinality(RefusedRowNumbers(up))
                       /\ \A i \in 1..Len(e) : e[i].line \in RefusedRowNumbers(up)
                       /\ \A i, j \in 1..Len(e) : i < j => e[i].line < e[j].line
          /\ ImportInserts(p)
                => LET a == loc[p].vins[loc[p].next] IN
                   IF store' = store /\ ~Stored(store, a.code)
                   THEN /\ Len(loc'[p].errors) = Len(loc[p].errors) + 1
                        /\ IsPrefix(loc[p].errors, loc'[p].errors)
                        /\ loc'[p].errors[Len(loc'[p].errors)].code = a.code
                   ELSE loc'[p].errors = loc[p].errors
          /\ ImportAnswers(p)
                => LET e == loc[p].errors
                       l == resp'[p].details.errorsList
                   IN  /\ resp'[p].summary.errors = Len(e)
                       /\ resp'[p].details.errorsCount = Len(e)
                       /\ Len(l) = Min(ErrorsListCap, Len(e))
                       /\ IsPrefix(l, e)]_vars

\* a summary with more than ten errors, of the parse and of the INSERT, and
\* ten of them listed
C22_Witness ==
    \E p \in Procs :
       /\ Answered(p, "import")
       /\ resp[p].status = 200
       /\ resp[p].summary.errors > ErrorsListCap
       /\ Len(resp[p].details.errorsList) = ErrorsListCap
       /\ \E i \in 1..ErrorsListCap : resp[p].details.errorsList[i].line = 0
       /\ \E i \in 1..ErrorsListCap : resp[p].details.errorsList[i].line > 1

\* C29: in the summary of an import, imported + duplicates + errors is the
\* number of data rows of the sheet, and totalLines is imported +
\* duplicates + the errors that are not refusals of the parse, which is the
\* number of rows the parse accepted.
C29_SummaryCountsAddUp ==
    [][\A p \in Procs :
          ImportAnswers(p)
             => LET up == req[p].upload
                    sm == resp'[p].summary
                    refused == Cardinality(RefusedRowNumbers(up))
                IN  /\ resp'[p].status = 200
                    /\ sm.imported + sm.duplicates + sm.errors
                          = Cardinality(DataRowNumbers(up))
                    /\ sm.errors >= refused
                    /\ sm.totalLines
                          = sm.imported + sm.duplicates + (sm.errors - refused)
                    /\ sm.totalLines
                          = Cardinality(DataRowNumbers(up)) - refused]_vars

\* a summary in which every count is at work: rows imported, duplicates,
\* rows the parse refused and rows the INSERT refused
C29_Witness ==
    \E p \in Procs :
       /\ Answered(p, "import")
       /\ resp[p].status = 200
       /\ resp[p].summary.imported >= 2
       /\ resp[p].summary.duplicates >= 1
       /\ Cardinality(RefusedRowNumbers(req[p].upload)) >= 1
       /\ resp[p].summary.errors
             > Cardinality(RefusedRowNumbers(req[p].upload))

\* position i of text starts 17 characters that are digits or capital
\* letters other than I, O and Q
StartsVin(text, i) ==
    /\ i >= 1
    /\ i + 16 <= Len(text)
    /\ \A k \in 0..16 : text[i + k] \in StandardVinChars
VinPositions(text) == {i \in 1..Len(text) : StartsVin(text, i)}

\* C23: an OCR request whose provider recognized text is answered success
\* with vin the 17 characters at the leftmost position of the text that
\* starts 17 characters of the VIN alphabet, and success: false with the
\* text when there is no such position; when the provider recognized no
\* text it is answered success: false without the text.
C23_OcrLeftmostVin ==
    \A p \in Procs :
       (Answered(p, "ocr") /\ req[p].image = "present")
          => LET d == req[p].detection
                 pos == VinPositions(d.text)
             IN  /\ (d.kind = "text" /\ pos # {})
                       => /\ resp[p].success = TRUE
                          /\ \E i \in pos :
                                /\ \A j \in pos : i <= j
                                /\ resp[p].vin = SubSeq(d.text, i, i + 16)
                 /\ (d.kind = "text" /\ pos = {})
                       => /\ resp[p].success = FALSE
                          /\ "vin" \notin DOMAIN resp[p]
                          /\ resp[p].allText = d.text
                 /\ d.kind = "none"
                       => /\ resp[p].success = FALSE
                          /\ "vin" \notin DOMAIN resp[p]
                          /\ "allText" \notin DOMAIN resp[p]

\* a text with two codes, the first after other characters: the answer is
\* the first, which is not where the text starts
C23_Witness ==
    \E p \in Procs :
       /\ Answered(p, "ocr")
       /\ req[p].detection.kind = "text"
       /\ Cardinality(VinPositions(req[p].detection.text)) >= 2
       /\ 1 \notin VinPositions(req[p].detection.text)
       /\ resp[p].success = TRUE
       /\ resp[p].vin = VIN_A

\* C28: the four counts of every stats answer, whatever creates, imports
\* and deletes ran while it was computed, are ordered as the counts of one
\* table are: today <= thisWeek <= total and today <= thisMonth <= total.
C28_StatsConsistentSnapshot ==
    \A p \in Procs :
       Answered(p, "stats")
          => LET st == resp[p].stats IN
             /\ st.today <= st.thisWeek
             /\ st.thisWeek <= st.total
             /\ st.today <= st.thisMonth
             /\ st.thisMonth <= st.total

ErrorStatuses == {400, 404, 409, 500}
\* this step answers the request held by slot p
Answers(p) == pc'[p] = "done" /\ (pc[p] # "done" \/ nreq' = nreq + 1)

\* C24: a create whose code is missing or not a VIN is answered 400; a
\* create whose INSERT meets a stored code 409; a delete of an integer id
\* that is not stored 404; an OCR request whose provider call fails 500 with
\* the provider's message; a request whose statement the database refuses
\* 500; and every answer with an error status carries success: false and a
\* non-empty error text.
C24_FailureStatusAndShape ==
    [][\A p \in Procs :
          /\ (Arrives(p) /\ req'[p].kind = "create"
                 /\ ~WellFormedVin(req'[p].body.code))
                => pc'[p] = "done" /\ resp'[p].status = 400
          /\ (CreateInserts(p) /\ Stored(store, req[p].body.code))
                => resp'[p].status = 409
          /\ (Arrives(p) /\ req'[p].kind = "delete"
                 /\ req'[p].id.form = "integer"
                 /\ \A r \in store : r.id # req'[p].id.n)
                => pc'[p] = "done" /\ resp'[p].status = 404
          /\ (Arrives(p) /\ req'[p].kind = "delete" /\ req'[p].id.form = "decimal")
                => pc'[p] = "done" /\ resp'[p].status = 500
          /\ (pc[p] = "detect" /\ pc'[p] = "done"
                 /\ req[p].detection.kind = "throws")
                => /\ resp'[p].status = 500
                   /\ resp'[p].error = req[p].detection.message
          /\ (Answers(p) /\ resp'[p].status >= 400)
                => /\ resp'[p].status \in ErrorStatuses
                   /\ resp'[p].success = FALSE
                   /\ "error" \in DOMAIN resp'[p]
                   /\ resp'[p].error # ""]_vars

\* a create answered 409 beside an OCR request answered 500 with the
\* provider's message
C24_Witness ==
    \E p \in Procs, q \in Procs :
       /\ Answered(p, "create")
       /\ resp[p].status = 409
       /\ Answered(q, "ocr")
       /\ req[q].image = "present"
       /\ resp[q].status = 500
       /\ resp[q].error = ProviderMessage

\* C25: a step changes the table only by the INSERT of a create or of an
\* import row, or by the DELETE of a delete; every record stored before the
\* step is stored after it with every field as it was, unless the step is
\* the DELETE of that record's id, and then no record has its id.
C25_StoredRecordsUnmodified ==
    [][/\ store' # store
          => \E p \in Procs :
                CreateInserts(p) \/ ImportInserts(p) \/ DeleteExecutes(p)
       /\ \A r \in store :
             \/ r \in store'
             \/ /\ \E p \in Procs : DeleteExecutes(p) /\ req[p].id.n = r.id
                /\ \A r2 \in store' : r2.id # r.id]_vars

\* a delete was answered 200 and a record of another id is stored, while
\* the clock has moved on since that record was created
C25_Witness ==
    \E p \in Procs :
       /\ Answered(p, "delete")
       /\ resp[p].status = 200
       /\ \E r \in store :
             /\ r.id # resp[p].deletedVin.id
             /\ r.created_at < now

====
